---------------------------- MODULE Spec2Model ----------------------------
(***************************************************************************)
(* Model of package errors of common-pkg-svc (src/unnamed/part_005, lines  *)
(* 154-758): the error taxonomy, AppError construction with options, the   *)
(* classification queries, the JSON form (MarshalJSON / UnmarshalJSON with *)
(* metadata redaction) and the specialised error variants.                 *)
(*                                                                         *)
(* Error values are objects addressed by a number (a Go pointer); 0 is     *)
(* nil.  The package-level sentinels, built by NewSentinel when the        *)
(* package is initialised, and the errors of other packages that the       *)
(* client holds have the first addresses; no operation modelled here       *)
(* writes to them.  The heap holds the objects allocated after that.  A    *)
(* client calls one constructor, and then either one query method or       *)
(* MarshalJSON followed by UnmarshalJSON.  A second client (SpecChain)     *)
(* builds chains of errors with Wrap, Wrapf, MultiError and WithCause and  *)
(* asks the package-level functions RootCause, Is, Unwrap, IsRetryable,    *)
(* IsTimeoutErr and PublicError about them.                                *)
(*                                                                         *)
(* Strings are TLA+ strings and are taken to be valid UTF-8, which         *)
(* encoding/json writes and reads back unchanged.  A time.Time is the pair *)
(* of whole seconds and nanoseconds since the zero time, in UTC.           *)
(***************************************************************************)
EXTENDS Integers, Sequences, FiniteSets, TLC

VARIABLES
    heap,   \* the error objects the constructors have allocated
    cur,    \* address of the error the last constructor returned, 0 = nil
    call,   \* the last constructor call: its name and arguments
    pc,     \* position of the client: start, built, returned, marshalled, unmarshalled
    ret,    \* result of the last query method
    out,    \* bytes returned by the last MarshalJSON, as the JSON document they spell
    data,   \* bytes handed to the last UnmarshalJSON
    dec,    \* the AppError value that is the receiver of UnmarshalJSON
    decErr, \* whether the last UnmarshalJSON returned a non-nil error
    frame,  \* the local variable err of a running RootCause, <<>> when none runs
    cfg,    \* the Config object: its maps, envPrefix and mu; <<>> when there is none
    th      \* the goroutines that use the Config, and what the client has Set

vars == <<heap, cur, call, pc, ret, out, data, dec, decErr, frame, cfg, th>>

-----------------------------------------------------------------------------
(* Bounds of the model. *)

\* longest option list handed to a constructor
MaxOpts == 2

\* most errors the chain client allocates
MaxChain == 2

\* longest argument list handed to MultiError
MaxErrs == 2

-----------------------------------------------------------------------------
(* Taxonomy: Kind, Code and LogLevel constants. *)

KindValidation == "validation"
KindNetwork == "network"
KindTimeout == "timeout"
KindNotFound == "not_found"
KindConflict == "conflict"
KindForbidden == "forbidden"
KindInternal == "internal"
KindRateLimit == "rate_limit"
KindAuth == "auth"
KindUnauthorized == "unauthorized"
KindOther == "other"

\* the eleven declared Kind values
Kind ==
    { KindValidation, KindNetwork, KindTimeout, KindNotFound, KindConflict,
      KindForbidden, KindInternal, KindRateLimit, KindAuth, KindUnauthorized,
      KindOther }

CodeInvalidInput == "INVALID_INPUT"
CodeNotFound == "NOT_FOUND"
CodeConflict == "CONFLICT"
CodeTimeout == "TIMEOUT"
CodeRateLimited == "RATE_LIMITED"
CodePermissionDenied == "PERMISSION_DENIED"
CodeValidation == "VALIDATION"
CodeVideoDecodeFail == "VIDEO_DECODE_FAIL"
CodeNetwork == "NETWORK"
CodeInternal == "INTERNAL"
CodeUnauthorized == "UNAUTHORIZED"

\* the eleven declared Code values
Code ==
    { CodeInvalidInput, CodeNotFound, CodeConflict, CodeTimeout, CodeRateLimited,
      CodePermissionDenied, CodeValidation, CodeVideoDecodeFail, CodeNetwork,
      CodeInternal, CodeUnauthorized }

LogDebug == "debug"
LogInfo == "info"
LogWarn == "warn"
LogError == "error"

codeToKind_NoDefault(c) ==
    CASE c \in {CodeInvalidInput, CodeValidation} -> KindValidation
      [] c = CodeNotFound -> KindNotFound
      [] c = CodeConflict -> KindConflict
      [] c = CodeTimeout -> KindTimeout
      [] c = CodeRateLimited -> KindRateLimit
      [] c \in {CodePermissionDenied, CodeUnauthorized} -> KindAuth
      [] c = CodeNetwork -> KindNetwork
      [] c \in {CodeInternal, CodeVideoDecodeFail} -> KindInternal
      [] OTHER -> c

codeToKind(c) ==
    CASE c \in {CodeInvalidInput, CodeValidation} -> KindValidation
      [] c = CodeNotFound -> KindNotFound
      [] c = CodeConflict -> KindConflict
      [] c = CodeTimeout -> KindTimeout
      [] c = CodeRateLimited -> KindRateLimit
      [] c \in {CodePermissionDenied, CodeUnauthorized} -> KindAuth
      [] c = CodeNetwork -> KindNetwork
      [] c \in {CodeInternal, CodeVideoDecodeFail} -> KindInternal
      [] OTHER -> KindOther

kindToHTTPStatus_AuthAs401(k) ==
    CASE k = KindValidation -> 400
      [] k \in {KindAuth, KindUnauthorized} -> 401
      [] k = KindForbidden -> 403
      [] k = KindNotFound -> 404
      [] k = KindConflict -> 409
      [] k = KindTimeout -> 408
      [] k = KindRateLimit -> 429
      [] OTHER -> 500

kindToHTTPStatus(k) ==
    CASE k = KindValidation -> 400
      [] k \in {KindAuth, KindForbidden} -> 403
      [] k = KindUnauthorized -> 401
      [] k = KindNotFound -> 404
      [] k = KindConflict -> 409
      [] k = KindTimeout -> 408
      [] k = KindRateLimit -> 429
      [] k \in {KindNetwork, KindInternal, KindOther} -> 500
      [] OTHER -> 500

-----------------------------------------------------------------------------
(* time.Time and its RFC3339 text. *)

ZeroTime == [sec |-> 0, nsec |-> 0]

IsZero(t) == t.sec = 0 /\ t.nsec = 0

Digits == "0123456789"

Digit(d) == SubSeq(Digits, d + 1, d + 1)

\* t.Format(time.RFC3339): whole seconds only, the nanoseconds are not written
FormatRFC3339(t) ==
    "0001-01-01T00:00:" \o Digit(t.sec \div 10) \o Digit(t.sec % 10) \o "Z"

\* time.Parse(time.RFC3339, s): the time and whether s parsed; the zero time
\* comes back with the error
ParseRFC3339(s) ==
    IF \E n \in 0..59 : FormatRFC3339([sec |-> n, nsec |-> 0]) = s
    THEN [ok |-> TRUE,
          t |-> [sec |-> CHOOSE n \in 0..59 :
                             FormatRFC3339([sec |-> n, nsec |-> 0]) = s,
                 nsec |-> 0]]
    ELSE [ok |-> FALSE, t |-> ZeroTime]

-----------------------------------------------------------------------------
(* Values: a Go value of type any, and a JSON value.  Both are records of   *)
(* the same shape: a type tag t, a string s, a number n and a map m.        *)

EmptyMap == [k \in {} |-> 0]

GoString(s) == [t |-> "string", s |-> s, n |-> 0, m |-> EmptyMap]
GoInt(n) == [t |-> "int", s |-> "", n |-> n, m |-> EmptyMap]
GoFloat64(n) == [t |-> "float64", s |-> "", n |-> n, m |-> EmptyMap]
GoBool(b) == [t |-> "bool", s |-> IF b THEN "true" ELSE "false", n |-> 0, m |-> EmptyMap]
GoNil == [t |-> "nil", s |-> "", n |-> 0, m |-> EmptyMap]
GoMap(m) == [t |-> "map", s |-> "", n |-> 0, m |-> m]

JString(s) == [t |-> "string", s |-> s, n |-> 0, m |-> EmptyMap]
JNumber(n) == [t |-> "number", s |-> "", n |-> n, m |-> EmptyMap]
JBool(b) == [t |-> "bool", s |-> IF b THEN "true" ELSE "false", n |-> 0, m |-> EmptyMap]
JNull == [t |-> "null", s |-> "", n |-> 0, m |-> EmptyMap]
JObject(m) == [t |-> "object", s |-> "", n |-> 0, m |-> m]

\* json.Marshal of one value of a map[string]any (maps one level deep)
jsonMarshalValue(v) ==
    CASE v.t = "string" -> JString(v.s)
      [] v.t \in {"int", "float64"} -> JNumber(v.n)
      [] v.t = "bool" -> [v EXCEPT !.t = "bool"]
      [] v.t = "map" ->
            JObject([k \in DOMAIN v.m |->
                        CASE v.m[k].t = "string" -> JString(v.m[k].s)
                          [] v.m[k].t \in {"int", "float64"} -> JNumber(v.m[k].n)
                          [] v.m[k].t = "bool" -> [v.m[k] EXCEPT !.t = "bool"]
                          [] OTHER -> JNull])
      [] OTHER -> JNull

\* json.Unmarshal of one JSON value into an any: every number is a float64
jsonUnmarshalValue(j) ==
    CASE j.t = "string" -> GoString(j.s)
      [] j.t = "number" -> GoFloat64(j.n)
      [] j.t = "bool" -> [j EXCEPT !.t = "bool"]
      [] j.t = "object" ->
            GoMap([k \in DOMAIN j.m |->
                      CASE j.m[k].t = "string" -> GoString(j.m[k].s)
                        [] j.m[k].t = "number" -> GoFloat64(j.m[k].n)
                        [] j.m[k].t = "bool" -> [j.m[k] EXCEPT !.t = "bool"]
                        [] OTHER -> GoNil])
      [] OTHER -> GoNil

\* the bytes of a JSON text, as the document they spell: an object with its
\* members, or null, an array or a scalar, or no JSON at all ("garbage")
JSONObjectText(members) == [form |-> "object", members |-> members]
JSONOtherText(form) == [form |-> form, members |-> EmptyMap]

NoBytes == JSONOtherText("none")

-----------------------------------------------------------------------------
(* strings.ToLower and strings.Contains. *)

UpperLetters == "ABCDEFGHIJKLMNOPQRSTUVWXYZ"
LowerLetters == "abcdefghijklmnopqrstuvwxyz"

LowerChar(c) ==
    IF \E i \in 1..Len(UpperLetters) : SubSeq(UpperLetters, i, i) = c
    THEN LET i == CHOOSE i \in 1..Len(UpperLetters) : SubSeq(UpperLetters, i, i) = c
         IN  SubSeq(LowerLetters, i, i)
    ELSE c

RECURSIVE ToLower(_)
ToLower(s) ==
    IF Len(s) = 0 THEN ""
    ELSE LowerChar(SubSeq(s, 1, 1)) \o ToLower(SubSeq(s, 2, Len(s)))

Contains(s, sub) ==
    \E i \in 1..(Len(s) - Len(sub) + 1) : SubSeq(s, i, i + Len(sub) - 1) = sub

-----------------------------------------------------------------------------
(* Redaction of metadata. *)

pIIFields ==
    { "password", "token", "secret", "email", "ssn", "credit_card", "api_key" }

isPIIField_CaseSensitive(k) ==
    k \in pIIFields \/ Contains(k, "password")
        \/ Contains(k, "token") \/ Contains(k, "secret")

isPIIField(k) ==
    LET lower == ToLower(k)
    IN  lower \in pIIFields \/ Contains(lower, "password")
            \/ Contains(lower, "token") \/ Contains(lower, "secret")

redactMetadata(m) ==
    [k \in DOMAIN m |-> IF isPIIField(k) THEN GoString("[REDACTED]") ELSE m[k]]

\* a redactMetadata that overwrites the entries of m instead of filling out
redactMetadata_InPlace(m) == redactMetadata(m)

\* the map m that was passed to redactMetadata, after the call: the loop reads
\* m and writes only to the map out it made
redactMetadata_Arg(m) == m

-----------------------------------------------------------------------------
(* AppError, the options and the constructors. *)

\* the zero value of struct AppError (nil map and nil slice are the empty ones)
ZeroAppError ==
    [ Code |-> "", Kind |-> "", InternalMsg |-> "", UserMsg |-> "",
      Cause |-> 0, stackTrace |-> "",
      TraceID |-> "", RequestID |-> "", Timestamp |-> ZeroTime,
      Retryable |-> FALSE, Timeout |-> FALSE,
      Metadata |-> EmptyMap ]

\* the fields the specialised variants add to the embedded AppError
ZeroExt ==
    [ Remaining |-> 0, Reset |-> ZeroTime,
      Role |-> "", Action |-> "", Resource |-> "",
      Field |-> "", Reason |-> "",
      Deadline |-> ZeroTime ]

\* heap objects: an error of another package (its Error() text), a *AppError,
\* or a variant struct that embeds an AppError by value
ForeignError(text) ==
    [type |-> "foreign", text |-> text, AppError |-> ZeroAppError, ext |-> ZeroExt]
AppErrorObject(e) ==
    [type |-> "AppError", text |-> "", AppError |-> e, ext |-> ZeroExt]

\* an Option is a closure over its argument; ApplyOption runs it on e
Option(name) ==
    [name |-> name, cause |-> 0, kind |-> "", id |-> "", flag |-> FALSE,
     meta |-> EmptyMap]

WithCause(cause) == [Option("WithCause") EXCEPT !.cause = cause]
WithKind(k) == [Option("WithKind") EXCEPT !.kind = k]
WithTraceID(id) == [Option("WithTraceID") EXCEPT !.id = id]
WithRequestID(id) == [Option("WithRequestID") EXCEPT !.id = id]
WithRetryable(retryable) == [Option("WithRetryable") EXCEPT !.flag = retryable]
WithTimeout(isTimeout) == [Option("WithTimeout") EXCEPT !.flag = isTimeout]
WithMetadata(m) == [Option("WithMetadata") EXCEPT !.meta = m]

ApplyOption(o, e) ==
    CASE o.name = "WithCause" -> [e EXCEPT !.Cause = o.cause]
      [] o.name = "WithKind" -> [e EXCEPT !.Kind = o.kind]
      [] o.name = "WithTraceID" -> [e EXCEPT !.TraceID = o.id]
      [] o.name = "WithRequestID" -> [e EXCEPT !.RequestID = o.id]
      [] o.name = "WithRetryable" -> [e EXCEPT !.Retryable = o.flag]
      [] o.name = "WithTimeout" -> [e EXCEPT !.Timeout = o.flag]
      [] o.name = "WithMetadata" ->
            [e EXCEPT !.Metadata =
                [k \in DOMAIN e.Metadata \cup DOMAIN o.meta |->
                    IF k \in DOMAIN o.meta THEN o.meta[k] ELSE e.Metadata[k]]]

\* the options applied from the last to the first
RECURSIVE ApplyOptions_LastFirst(_, _)
ApplyOptions_LastFirst(opts, e) ==
    IF opts = <<>> THEN e
    ELSE ApplyOption(Head(opts), ApplyOptions_LastFirst(Tail(opts), e))

\* for _, o := range opts { o(e) }
RECURSIVE ApplyOptions(_, _)
ApplyOptions(opts, e) ==
    IF opts = <<>> THEN e
    ELSE ApplyOptions(Tail(opts), ApplyOption(Head(opts), e))

New_NoUserMsgDefault(code, internalMsg, userMsg, opts, now, stack) ==
    ApplyOptions(opts,
        [ZeroAppError EXCEPT
            !.Code = code, !.Kind = codeToKind(code),
            !.InternalMsg = internalMsg, !.UserMsg = userMsg,
            !.Timestamp = now, !.stackTrace = stack])

\* now is what time.Now() returns and stack what debug.Stack() returns
New(code, internalMsg, userMsg, opts, now, stack) ==
    LET e == [ZeroAppError EXCEPT
                !.Code = code, !.Kind = codeToKind(code),
                !.InternalMsg = internalMsg, !.UserMsg = userMsg,
                !.Timestamp = now, !.Metadata = EmptyMap]
        d == IF userMsg = "" THEN [e EXCEPT !.UserMsg = internalMsg] ELSE e
    IN  ApplyOptions(opts, [d EXCEPT !.stackTrace = stack])

NewSentinel(code, msg, kind) ==
    [ZeroAppError EXCEPT
        !.Code = code, !.Kind = kind, !.InternalMsg = msg, !.UserMsg = msg]

\* fmt.Sprintf of the fixed formats the constructors use
SprintfPermissionDenied(role, action, resource) ==
    "permission denied: " \o role \o " cannot " \o action \o " on " \o resource
SprintfField(field, reason) == "field " \o field \o ": " \o reason
SprintfInvalid(field, reason) == "invalid " \o field \o ": " \o reason

\* NewLimitError without its assignment e.Kind = KindRateLimit
NewLimitError_KindFromOpts(remaining, reset, opts, now, stack) ==
    LET e == New(CodeRateLimited, "rate limit exceeded", "rate limit exceeded",
                 opts, now, stack)
    IN  [type |-> "LimitError", text |-> "", AppError |-> e,
         ext |-> [ZeroExt EXCEPT !.Remaining = remaining, !.Reset = reset]]

NewLimitError(remaining, reset, opts, now, stack) ==
    LET e == New(CodeRateLimited, "rate limit exceeded", "rate limit exceeded",
                 opts, now, stack)
    IN  [type |-> "LimitError", text |-> "",
         AppError |-> [e EXCEPT !.Kind = KindRateLimit],
         ext |-> [ZeroExt EXCEPT !.Remaining = remaining, !.Reset = reset]]

NewRBACError(role, action, resource, opts, now, stack) ==
    LET e == New(CodePermissionDenied,
                 SprintfPermissionDenied(role, action, resource),
                 "permission denied", opts, now, stack)
    IN  [type |-> "RBACError", text |-> "",
         AppError |-> [e EXCEPT !.Kind = KindForbidden],
         ext |-> [ZeroExt EXCEPT
                    !.Role = role, !.Action = action, !.Resource = resource]]

\* reason is fmt.Sprintf(format, args...)
FieldErrorf(field, reason, now, stack) ==
    LET e == New(CodeValidation, SprintfField(field, reason),
                 SprintfInvalid(field, reason), <<>>, now, stack)
    IN  [type |-> "FieldError", text |-> "",
         AppError |-> [e EXCEPT !.Kind = KindValidation],
         ext |-> [ZeroExt EXCEPT !.Field = field, !.Reason = reason]]

NewTimeoutError_OptsLast(deadline, opts, now, stack) ==
    LET e == New(CodeTimeout, "operation timed out", "request timed out",
                 <<WithTimeout(TRUE), WithRetryable(TRUE)>> \o opts, now, stack)
    IN  [type |-> "TimeoutError", text |-> "",
         AppError |-> [e EXCEPT !.Kind = KindTimeout],
         ext |-> [ZeroExt EXCEPT !.Deadline = deadline]]

NewTimeoutError(deadline, opts, now, stack) ==
    LET e == New(CodeTimeout, "operation timed out", "request timed out",
                 opts \o <<WithTimeout(TRUE), WithRetryable(TRUE)>>, now, stack)
    IN  [type |-> "TimeoutError", text |-> "",
         AppError |-> [e EXCEPT !.Kind = KindTimeout],
         ext |-> [ZeroExt EXCEPT !.Deadline = deadline]]

-----------------------------------------------------------------------------
(* Methods of AppError (the variants inherit them through the embedding). *)

AppError_Error(e) ==
    IF e.InternalMsg # "" THEN e.InternalMsg
    ELSE IF e.UserMsg # "" THEN e.UserMsg
    ELSE e.Code

AppError_HTTPStatus(e) == kindToHTTPStatus(e.Kind)

AppError_IsRetryable(e) == e.Retryable

AppError_IsTimeout(e) == e.Timeout \/ e.Kind = KindTimeout

AppError_LogLevel_ConflictWarn(e) ==
    CASE e.Kind \in {KindValidation, KindNotFound} -> LogWarn
      [] e.Kind \in {KindForbidden, KindAuth, KindRateLimit} -> LogWarn
      [] e.Kind \in {KindTimeout, KindNetwork, KindConflict} -> LogWarn
      [] OTHER -> LogError

AppError_LogLevel(e) ==
    CASE e.Kind \in {KindValidation, KindNotFound} -> LogWarn
      [] e.Kind \in {KindForbidden, KindAuth, KindRateLimit} -> LogWarn
      [] e.Kind \in {KindTimeout, KindNetwork} -> LogWarn
      [] e.Kind \in {KindInternal, KindConflict, KindOther} -> LogError
      [] OTHER -> LogError


-----------------------------------------------------------------------------
(* The JSON form. *)

AppError_MarshalJSON_DropsTraceID(e) ==
    LET keys == {"code", "kind", "message"}
                \cup (IF e.RequestID # "" THEN {"request_id"} ELSE {})
                \cup (IF ~IsZero(e.Timestamp) THEN {"timestamp"} ELSE {})
                \cup (IF Cardinality(DOMAIN e.Metadata) > 0 THEN {"metadata"} ELSE {})
    IN  JSONObjectText(
            [k \in keys |->
                CASE k = "code" -> JString(e.Code)
                  [] k = "kind" -> JString(e.Kind)
                  [] k = "message" -> JString(e.UserMsg)
                  [] k = "request_id" -> JString(e.RequestID)
                  [] k = "timestamp" -> JString(FormatRFC3339(e.Timestamp))
                  [] k = "metadata" ->
                        jsonMarshalValue(GoMap(redactMetadata(e.Metadata)))])

\* MarshalJSON writing the timestamp member even for the zero time
AppError_MarshalJSON_AlwaysTimestamp(e) ==
    LET keys == {"code", "kind", "message", "timestamp"}
                \cup (IF e.TraceID # "" THEN {"trace_id"} ELSE {})
                \cup (IF e.RequestID # "" THEN {"request_id"} ELSE {})
                \cup (IF Cardinality(DOMAIN e.Metadata) > 0 THEN {"metadata"} ELSE {})
    IN  JSONObjectText(
            [k \in keys |->
                CASE k = "code" -> JString(e.Code)
                  [] k = "kind" -> JString(e.Kind)
                  [] k = "message" -> JString(e.UserMsg)
                  [] k = "trace_id" -> JString(e.TraceID)
                  [] k = "request_id" -> JString(e.RequestID)
                  [] k = "timestamp" -> JString(FormatRFC3339(e.Timestamp))
                  [] k = "metadata" ->
                        jsonMarshalValue(GoMap(redactMetadata(e.Metadata)))])

\* the bytes json.Marshal(m) returns for the map m that MarshalJSON fills
AppError_MarshalJSON(e) ==
    LET keys == {"code", "kind", "message"}
                \cup (IF e.TraceID # "" THEN {"trace_id"} ELSE {})
                \cup (IF e.RequestID # "" THEN {"request_id"} ELSE {})
                \cup (IF ~IsZero(e.Timestamp) THEN {"timestamp"} ELSE {})
                \cup (IF Cardinality(DOMAIN e.Metadata) > 0 THEN {"metadata"} ELSE {})
    IN  JSONObjectText(
            [k \in keys |->
                CASE k = "code" -> JString(e.Code)
                  [] k = "kind" -> JString(e.Kind)
                  [] k = "message" -> JString(e.UserMsg)
                  [] k = "trace_id" -> JString(e.TraceID)
                  [] k = "request_id" -> JString(e.RequestID)
                  [] k = "timestamp" -> JString(FormatRFC3339(e.Timestamp))
                  [] k = "metadata" ->
                        jsonMarshalValue(GoMap(redactMetadata(e.Metadata)))])

\* json.Unmarshal(data, &m) for m of type map[string]any: the map and whether
\* an error came back; the text null gives the nil map and no error
jsonUnmarshalMap(d) ==
    CASE d.form = "object" ->
            [err |-> FALSE,
             m |-> [k \in DOMAIN d.members |-> jsonUnmarshalValue(d.members[k])]]
      [] d.form = "null" -> [err |-> FALSE, m |-> EmptyMap]
      [] OTHER -> [err |-> TRUE, m |-> EmptyMap]

\* v, ok := m[k].(string)
IsStringAt(m, k) == k \in DOMAIN m /\ m[k].t = "string"

AppError_UnmarshalJSON_StrictTimestamp(e, d) ==
    LET r == jsonUnmarshalMap(d)
        m == r.m
    IN  IF r.err \/ (IsStringAt(m, "timestamp")
                        /\ ~ParseRFC3339(m["timestamp"].s).ok)
        THEN [e |-> e, err |-> TRUE]
        ELSE [e |-> [e EXCEPT
                !.Code = IF IsStringAt(m, "code") THEN m["code"].s ELSE @,
                !.Kind = IF IsStringAt(m, "kind") THEN m["kind"].s ELSE @,
                !.UserMsg = IF IsStringAt(m, "message") THEN m["message"].s ELSE @,
                !.InternalMsg = IF IsStringAt(m, "message") THEN m["message"].s ELSE @,
                !.TraceID = IF IsStringAt(m, "trace_id") THEN m["trace_id"].s ELSE @,
                !.RequestID =
                    IF IsStringAt(m, "request_id") THEN m["request_id"].s ELSE @,
                !.Timestamp =
                    IF IsStringAt(m, "timestamp")
                    THEN ParseRFC3339(m["timestamp"].s).t ELSE @,
                !.Metadata =
                    IF "metadata" \in DOMAIN m /\ m["metadata"].t = "map"
                    THEN m["metadata"].m ELSE @],
              err |-> FALSE]

\* an UnmarshalJSON that fills a fresh AppError and stores it in the receiver
AppError_UnmarshalJSON_FreshValue(e, d) ==
    IF jsonUnmarshalMap(d).err
    THEN [e |-> e, err |-> TRUE]
    ELSE AppError_UnmarshalJSON_StrictTimestamp(ZeroAppError, d)

\* the receiver after the call, and whether a non-nil error was returned
AppError_UnmarshalJSON(e, d) ==
    LET r == jsonUnmarshalMap(d)
        m == r.m
    IN  IF r.err
        THEN [e |-> e, err |-> TRUE]
        ELSE [e |-> [e EXCEPT
                !.Code = IF IsStringAt(m, "code") THEN m["code"].s ELSE @,
                !.Kind = IF IsStringAt(m, "kind") THEN m["kind"].s ELSE @,
                !.UserMsg = IF IsStringAt(m, "message") THEN m["message"].s ELSE @,
                !.InternalMsg = IF IsStringAt(m, "message") THEN m["message"].s ELSE @,
                !.TraceID = IF IsStringAt(m, "trace_id") THEN m["trace_id"].s ELSE @,
                !.RequestID =
                    IF IsStringAt(m, "request_id") THEN m["request_id"].s ELSE @,
                !.Timestamp =
                    IF IsStringAt(m, "timestamp")
                    THEN ParseRFC3339(m["timestamp"].s).t ELSE @,
                !.Metadata =
                    IF "metadata" \in DOMAIN m /\ m["metadata"].t = "map"
                    THEN m["metadata"].m ELSE @],
              err |-> FALSE]

-----------------------------------------------------------------------------
(* The package's sentinels and the initial heap. *)

ErrInvalidInput == NewSentinel(CodeInvalidInput, "invalid input", KindValidation)
ErrNotFound == NewSentinel(CodeNotFound, "resource not found", KindNotFound)
ErrConflict == NewSentinel(CodeConflict, "resource conflict", KindConflict)
ErrTimeout == NewSentinel(CodeTimeout, "operation timed out", KindTimeout)
ErrRateLimited == NewSentinel(CodeRateLimited, "rate limit exceeded", KindRateLimit)
ErrForbidden == NewSentinel(CodePermissionDenied, "permission denied", KindForbidden)
ErrUnauthorized == NewSentinel(CodeUnauthorized, "unauthorized", KindUnauthorized)
ErrInternal == NewSentinel(CodeInternal, "internal error", KindInternal)
ErrNetwork == NewSentinel(CodeNetwork, "network error", KindNetwork)

\* the sentinels in declaration order; Sentinels[i] lives at address i
Sentinels ==
    << ErrInvalidInput, ErrNotFound, ErrConflict, ErrTimeout, ErrRateLimited,
       ErrForbidden, ErrUnauthorized, ErrInternal, ErrNetwork >>

\* errors made by other packages that the client holds, after the sentinels
ForeignErrors == << ForeignError("unexpected EOF"), ForeignError("") >>

\* the objects that exist when the client starts, by address
StaticObjects ==
    [i \in 1..Len(Sentinels) |-> AppErrorObject(Sentinels[i])] \o ForeignErrors

SentinelAddrs == 1..Len(Sentinels)
ForeignAddrs == (Len(Sentinels) + 1)..Len(StaticObjects)

\* the address of the sentinel e
AddrOf(e) == CHOOSE a \in SentinelAddrs : Sentinels[a] = e

\* the object at address a # 0, with h the heap
Object(h, a) ==
    IF a <= Len(StaticObjects) THEN StaticObjects[a] ELSE h[a - Len(StaticObjects)]

\* the addresses in use
Addrs(h) == 1..(Len(StaticObjects) + Len(h))

\* the *wrapError that Wrap and Wrapf allocate
WrapErrorObject(msg, cause) == [type |-> "wrapError", msg |-> msg, cause |-> cause]

\* the error errors.Join allocates: its non-nil arguments, in order
JoinErrorObject(errs) == [type |-> "joinError", errs |-> errs]

\* a nil *AppError stored in an error interface: the interface is not nil,
\* and reading a field through the pointer panics
NilAppError == -1

\* the types that are AppError or embed it, and so have its methods
AppErrorTypes == {"AppError", "LimitError", "RBACError", "FieldError", "TimeoutError"}

\* wrapError.Error() without the text of the cause
wrapError_Error_NoCause(msg, cause, causeText) == msg

\* wrapError.Error(), with causeText the cause's Error() when cause is not nil
wrapError_Error(msg, cause, causeText) ==
    IF cause # 0 THEN msg \o ": " \o causeText ELSE msg

\* err.Error() of the object at address a
RECURSIVE ErrorText(_, _)
RECURSIVE JoinText(_, _)
ErrorText(h, a) ==
    LET o == Object(h, a)
    IN  CASE o.type = "foreign" -> o.text
          [] o.type = "wrapError" ->
                wrapError_Error(o.msg, o.cause,
                                IF o.cause # 0 THEN ErrorText(h, o.cause) ELSE "")
          [] o.type = "joinError" -> JoinText(h, o.errs)
          [] OTHER -> AppError_Error(o.AppError)

\* joinError.Error(): the texts of the joined errors, one per line
JoinText(h, errs) ==
    IF Len(errs) = 1 THEN ErrorText(h, errs[1])
    ELSE ErrorText(h, errs[1]) \o "\n" \o JoinText(h, Tail(errs))

-----------------------------------------------------------------------------
(* Wrapping, joining and walking the chain of causes. *)

\* what a function that returns an error hands back: an error that exists
\* already (0 is nil), or an object it has allocated
Existing(a) == [a |-> a, new |-> <<>>]
Allocated(obj) == [a |-> 0, new |-> <<obj>>]

\* fmt.Sprintf(format, arg) for a format that ends in the verb %s or has none
Sprintf(format, arg) ==
    IF Len(format) >= 2 /\ SubSeq(format, Len(format) - 1, Len(format)) = "%s"
    THEN SubSeq(format, 1, Len(format) - 2) \o arg
    ELSE format

Wrap(err, msg) ==
    IF err = 0 THEN Existing(0) ELSE Allocated(WrapErrorObject(msg, err))

Wrapf(err, format, arg) ==
    IF err = 0 THEN Existing(0)
    ELSE Allocated(WrapErrorObject(Sprintf(format, arg), err))

\* whether the object has a method Unwrap() error: *AppError and *wrapError
\* declare it, the variants get it from the embedded AppError
HasUnwrap(o) == o.type \in AppErrorTypes \cup {"wrapError"}

\* o.Unwrap() of an object that has the method
UnwrapMethod(o) == IF o.type = "wrapError" THEN o.cause ELSE o.AppError.Cause

\* Unwrap(err), which is errors.Unwrap(err)
Unwrap(h, err) ==
    IF err = 0 \/ ~HasUnwrap(Object(h, err)) THEN 0
    ELSE UnwrapMethod(Object(h, err))

\* RootCause stopping after one step
RootCause_OneStep(h, err) ==
    IF err = 0 \/ ~HasUnwrap(Object(h, err)) THEN err
    ELSE IF UnwrapMethod(Object(h, err)) = 0 THEN err
    ELSE UnwrapMethod(Object(h, err))

RECURSIVE RootCause(_, _)
RootCause(h, err) ==
    IF err = 0 THEN 0
    ELSE IF ~HasUnwrap(Object(h, err)) THEN err
    ELSE IF UnwrapMethod(Object(h, err)) = 0 THEN err
    ELSE RootCause(h, UnwrapMethod(Object(h, err)))

\* errors.Is that compares only the outermost error with the target
Is_TopOnly(h, err, target) == err = target

\* errors.Is that does not descend into the errors of a joined error
RECURSIVE Is_SingleChain(_, _, _)
Is_SingleChain(h, err, target) ==
    IF err = 0 \/ target = 0 THEN err = target
    ELSE IF err = target THEN TRUE
    ELSE IF HasUnwrap(Object(h, err))
         THEN /\ UnwrapMethod(Object(h, err)) # 0
              /\ Is_SingleChain(h, UnwrapMethod(Object(h, err)), target)
    ELSE FALSE

\* Is(err, target), which is errors.Is(err, target); no type of the package
\* has an Is method, and pointers are comparable
RECURSIVE Is(_, _, _)
Is(h, err, target) ==
    IF err = 0 \/ target = 0 THEN err = target
    ELSE IF err = target THEN TRUE
    ELSE IF HasUnwrap(Object(h, err))
         THEN /\ UnwrapMethod(Object(h, err)) # 0
              /\ Is(h, UnwrapMethod(Object(h, err)), target)
    ELSE IF Object(h, err).type = "joinError"
         THEN \E i \in 1..Len(Object(h, err).errs) :
                    Is(h, Object(h, err).errs[i], target)
    ELSE FALSE

\* errors.As(err, &p) for p a pointer to struct typ: the pointer it stores
\* in p, 0 when it returns false; the first match walking the chain depth first
RECURSIVE As(_, _, _)
As(h, err, typ) ==
    IF err = 0 THEN 0
    ELSE IF err = NilAppError THEN (IF typ = "AppError" THEN NilAppError ELSE 0)
    ELSE IF Object(h, err).type = typ THEN err
    ELSE IF HasUnwrap(Object(h, err)) THEN As(h, UnwrapMethod(Object(h, err)), typ)
    ELSE IF Object(h, err).type = "joinError"
         THEN LET errs == Object(h, err).errs
                  hits == {i \in 1..Len(errs) : As(h, errs[i], typ) # 0}
              IN  IF hits = {} THEN 0
                  ELSE As(h, errs[CHOOSE i \in hits : \A j \in hits : i <= j], typ)
    ELSE 0

\* NewFromError without the test for *AppError
NewFromError_AlwaysWraps(h, err, code, userMsg, now, stack) ==
    IF err = 0 THEN Existing(0)
    ELSE Allocated(AppErrorObject(
            New(code, ErrorText(h, err), userMsg, <<WithCause(err)>>, now, stack)))

\* NewFromError(err, code, userMsg); the nil it returns is a nil *AppError
NewFromError(h, err, code, userMsg, now, stack) ==
    IF err = 0 THEN Existing(0)
    ELSE IF Object(h, err).type = "AppError" THEN Existing(err)
    ELSE Allocated(AppErrorObject(
            New(code, ErrorText(h, err), userMsg, <<WithCause(err)>>, now, stack)))

\* MultiError handing every non-empty list to errors.Join
MultiError_AlwaysJoin(errs) ==
    LET nonNil == SelectSeq(errs, LAMBDA e : e # 0)
    IN  IF Len(nonNil) = 0 THEN Existing(0)
        ELSE Allocated(JoinErrorObject(nonNil))

\* MultiError returning its first non-nil argument when there are several
MultiError_FirstOnly(errs) ==
    LET nonNil == SelectSeq(errs, LAMBDA e : e # 0)
    IN  IF Len(nonNil) = 0 THEN Existing(0) ELSE Existing(nonNil[1])

MultiError(errs) ==
    LET nonNil == SelectSeq(errs, LAMBDA e : e # 0)
    IN  IF Len(nonNil) = 0 THEN Existing(0)
        ELSE IF Len(nonNil) = 1 THEN Existing(nonNil[1])
        ELSE Allocated(JoinErrorObject(nonNil))

\* what a call hands back: a value, or a panic that unwinds the caller
GoReturn(b, s) == [panic |-> FALSE, b |-> b, s |-> s]
GoPanic == [panic |-> TRUE, b |-> FALSE, s |-> ""]

\* IsRetryable(err)
IsRetryable(h, err) ==
    IF err = 0 THEN GoReturn(FALSE, "")
    ELSE IF As(h, err, "AppError") = NilAppError THEN GoPanic
    ELSE IF As(h, err, "AppError") # 0
         THEN GoReturn(AppError_IsRetryable(Object(h, As(h, err, "AppError")).AppError), "")
    ELSE IF As(h, err, "TimeoutError") # 0
         THEN GoReturn(AppError_IsRetryable(
                           Object(h, As(h, err, "TimeoutError")).AppError), "")
    ELSE GoReturn(FALSE, "")

\* IsTimeoutErr(err)
IsTimeoutErr(h, err) ==
    IF err = 0 THEN GoReturn(FALSE, "")
    ELSE IF As(h, err, "AppError") = NilAppError THEN GoPanic
    ELSE IF As(h, err, "AppError") # 0
         THEN GoReturn(AppError_IsTimeout(Object(h, As(h, err, "AppError")).AppError), "")
    ELSE IF As(h, err, "TimeoutError") # 0
         THEN GoReturn(AppError_IsTimeout(
                           Object(h, As(h, err, "TimeoutError")).AppError), "")
    ELSE GoReturn(Is(h, err, AddrOf(ErrTimeout)), "")

\* PublicError(err): the type assertions look at err itself, not at its chain
PublicError(h, err) ==
    IF err = 0 THEN GoReturn(FALSE, "")
    ELSE IF err = NilAppError THEN GoPanic
    ELSE LET o == Object(h, err)
         IN  IF o.type = "AppError" /\ o.AppError.UserMsg # ""
             THEN GoReturn(FALSE, o.AppError.UserMsg)
             ELSE IF o.type \in {"FieldError", "LimitError", "TimeoutError", "RBACError"}
             THEN GoReturn(FALSE, o.AppError.UserMsg)
             ELSE GoReturn(FALSE, "an error occurred")

-----------------------------------------------------------------------------
(* The arguments the client chooses from. *)

\* a code and a kind that are declared nowhere
UndeclaredCode == "TEAPOT"
UndeclaredKind == "quota"

AllCodes == Code \cup {UndeclaredCode}
AllKinds == Kind \cup {UndeclaredKind}

InternalMsgs == {"", "db row missing"}
UserMsgs == {"", "not found"}

\* what time.Now() may return: never the zero time
Clock == { [sec |-> 1, nsec |-> 0], [sec |-> 12, nsec |-> 500000000] }

\* what debug.Stack() returns at the call site
Stack == "goroutine 1 [running]:"

MetadataArgs ==
    { [k \in {"password", "user_id", "SSN"} |->
          CASE k = "password" -> GoString("hunter2")
            [] k = "user_id" -> GoString("u1")
            [] k = "SSN" -> GoInt(123)],
      [k \in {"Auth_Token", "user_email", "api_key", "attempt"} |->
          CASE k = "Auth_Token" -> GoString("abc")
            [] k = "user_email" -> GoString("a@b.c")
            [] k = "api_key" -> GoString("k-1")
            [] k = "attempt" -> GoInt(3)],
      [k \in {"user_id", "email", "client_secret_v2", "credit_card"} |->
          CASE k = "user_id" -> GoString("u2")
            [] k = "email" -> GoString("d@e.f")
            [] k = "client_secret_v2" -> GoBool(TRUE)
            [] k = "credit_card" -> GoString("4111")] }

Options ==
    {WithCause(a) : a \in {Len(Sentinels) + 1}}
        \cup {WithKind(k) : k \in {KindNetwork, UndeclaredKind}}
        \cup {WithTraceID("t1"), WithRequestID("r1")}
        \cup {WithRetryable(b) : b \in BOOLEAN}
        \cup {WithTimeout(b) : b \in BOOLEAN}
        \cup {WithMetadata(m) : m \in MetadataArgs}

OptionLists == UNION {[1..n -> Options] : n \in 0..MaxOpts}

\* New is called with every code and no option, and with a few codes and
\* every option list
NewArgs ==
    {<<c, <<>> >> : c \in AllCodes}
        \cup ({CodeNotFound, CodeTimeout, UndeclaredCode} \X OptionLists)

Deadlines == { [sec |-> 30, nsec |-> 0] }

\* the JSON texts a client may receive: objects whose members have the
\* expected type, another type, or are missing; and texts that are no object
AbsentMember == [t |-> "absent", s |-> "", n |-> 0, m |-> EmptyMap]

WireObject(code, kind, message, traceID, timestamp, metadata) ==
    LET all == [k \in {"code", "kind", "message", "trace_id", "timestamp", "metadata"}
                  |-> CASE k = "code" -> code
                        [] k = "kind" -> kind
                        [] k = "message" -> message
                        [] k = "trace_id" -> traceID
                        [] k = "timestamp" -> timestamp
                        [] k = "metadata" -> metadata]
    IN  JSONObjectText([k \in {x \in DOMAIN all : all[x] # AbsentMember} |-> all[k]])

WireTexts ==
    { WireObject(c, k, msg, tid, ts, md) :
        c \in {AbsentMember, JString(CodeNotFound), JString("FUTURE_CODE"), JNumber(7)},
        k \in {AbsentMember, JString(KindNotFound), JString("future_kind")},
        msg \in {AbsentMember, JString("resource not found")},
        tid \in {AbsentMember, JString("t1")},
        ts \in {AbsentMember, JString(FormatRFC3339([sec |-> 7, nsec |-> 0])),
                JString("yesterday"), JString(""), JNumber(1700000000)},
        md \in {AbsentMember, JString("none"),
                JObject([x \in {"password", "n"} |->
                            IF x = "n" THEN JNumber(3) ELSE JString("[REDACTED]")])} }
        \cup {JSONOtherText("null"), JSONOtherText("array"), JSONOtherText("garbage")}

-----------------------------------------------------------------------------
(* The state machine. *)

NoCall ==
    [op |-> "", code |-> "", kind |-> "", internalMsg |-> "", userMsg |-> "",
     opts |-> <<>>, err |-> 0, now |-> ZeroTime]

NoRet == [op |-> "", n |-> 0, s |-> "", b |-> FALSE]

Init ==
    /\ heap = <<>>
    /\ cur = 0
    /\ call = NoCall
    /\ pc = "start"
    /\ ret = NoRet
    /\ out = NoBytes
    /\ data = NoBytes
    /\ dec = ZeroAppError
    /\ decErr = FALSE
    /\ frame = <<>>
    /\ cfg = <<>>
    /\ th = <<>>

\* a constructor returned the new object obj
Built(obj, c) ==
    /\ heap' = Append(heap, obj)
    /\ cur' = Len(StaticObjects) + Len(heap) + 1
    /\ call' = c
    /\ pc' = "built"
    /\ UNCHANGED <<ret, out, data, dec, decErr, frame, cfg, th>>

DoNew ==
    /\ pc = "start"
    /\ \E a \in NewArgs, internalMsg \in InternalMsgs, userMsg \in UserMsgs,
          now \in Clock :
          Built(AppErrorObject(New(a[1], internalMsg, userMsg, a[2], now, Stack)),
                [NoCall EXCEPT !.op = "New", !.code = a[1],
                               !.internalMsg = internalMsg, !.userMsg = userMsg,
                               !.opts = a[2], !.now = now])

DoNewSentinel ==
    /\ pc = "start"
    /\ \E code \in AllCodes, msg \in InternalMsgs, kind \in AllKinds :
          Built(AppErrorObject(NewSentinel(code, msg, kind)),
                [NoCall EXCEPT !.op = "NewSentinel", !.code = code, !.kind = kind,
                               !.internalMsg = msg, !.userMsg = msg])

\* NewFromError(err, code, userMsg): nil for nil, err itself when it is a
\* *AppError, else a new AppError around it
DoNewFromError ==
    /\ pc = "start"
    /\ \E err \in {0} \cup Addrs(heap), code \in {CodeInternal, UndeclaredCode},
          userMsg \in UserMsgs, now \in Clock :
          LET c == [NoCall EXCEPT !.op = "NewFromError", !.code = code,
                                  !.userMsg = userMsg, !.err = err, !.now = now]
          IN  IF err = 0 \/ Object(heap, err).type = "AppError"
              THEN /\ cur' = err
                   /\ call' = c
                   /\ pc' = "built"
                   /\ UNCHANGED <<heap, ret, out, data, dec, decErr, frame, cfg, th>>
              ELSE Built(AppErrorObject(New(code, ErrorText(heap, err), userMsg,
                                            <<WithCause(err)>>, now, Stack)), c)

DoNewLimitError ==
    /\ pc = "start"
    /\ \E remaining \in {0, 5}, reset \in Deadlines, opts \in OptionLists,
          now \in Clock :
          Built(NewLimitError(remaining, reset, opts, now, Stack),
                [NoCall EXCEPT !.op = "NewLimitError", !.opts = opts, !.now = now])

DoNewRBACError ==
    /\ pc = "start"
    /\ \E role \in {"", "viewer"}, opts \in OptionLists, now \in Clock :
          Built(NewRBACError(role, "delete", "project", opts, now, Stack),
                [NoCall EXCEPT !.op = "NewRBACError", !.opts = opts, !.now = now])

DoFieldErrorf ==
    /\ pc = "start"
    /\ \E field \in {"", "email"}, reason \in {"", "must be valid format"},
          now \in Clock :
          Built(FieldErrorf(field, reason, now, Stack),
                [NoCall EXCEPT !.op = "FieldErrorf", !.now = now])

DoNewTimeoutError ==
    /\ pc = "start"
    /\ \E deadline \in Deadlines, opts \in OptionLists, now \in Clock :
          Built(NewTimeoutError(deadline, opts, now, Stack),
                [NoCall EXCEPT !.op = "NewTimeoutError", !.opts = opts,
                               !.now = now])

\* the client takes one of the package's sentinels, for example errors.ErrNotFound
UseSentinel ==
    /\ pc = "start"
    /\ \E a \in SentinelAddrs :
          /\ cur' = a
          /\ call' = [NoCall EXCEPT !.op = "sentinel"]
          /\ pc' = "built"
          /\ UNCHANGED <<heap, ret, out, data, dec, decErr, frame, cfg, th>>

\* the error in hand is an AppError or embeds one, so it has the methods
HasAppError == pc = "built" /\ cur # 0 /\ Object(heap, cur).type # "foreign"

Returned(r) ==
    /\ ret' = r
    /\ pc' = "returned"
    /\ UNCHANGED <<heap, cur, call, out, data, dec, decErr, frame, cfg, th>>

DoHTTPStatus ==
    /\ HasAppError
    /\ Returned([NoRet EXCEPT !.op = "HTTPStatus",
                              !.n = AppError_HTTPStatus(Object(heap, cur).AppError)])

DoLogLevel ==
    /\ HasAppError
    /\ Returned([NoRet EXCEPT !.op = "LogLevel",
                              !.s = AppError_LogLevel(Object(heap, cur).AppError)])

DoIsRetryable ==
    /\ HasAppError
    /\ Returned([NoRet EXCEPT !.op = "IsRetryable",
                              !.b = AppError_IsRetryable(Object(heap, cur).AppError)])

DoIsTimeout ==
    /\ HasAppError
    /\ Returned([NoRet EXCEPT !.op = "IsTimeout",
                              !.b = AppError_IsTimeout(Object(heap, cur).AppError)])

DoMarshalJSON ==
    /\ HasAppError
    /\ out' = AppError_MarshalJSON(Object(heap, cur).AppError)
    /\ pc' = "marshalled"
    /\ UNCHANGED <<heap, cur, call, ret, data, dec, decErr, frame, cfg, th>>

\* an AppError the client already holds, with every field set, that it is
\* about to unmarshal into
PopulatedReceiver ==
    New(CodeTimeout, "db timeout", "try again",
        <<WithCause(AddrOf(ErrTimeout)), WithTraceID("t0"), WithRequestID("r0"),
          WithRetryable(TRUE), WithTimeout(TRUE),
          WithMetadata([k \in {"attempt"} |-> GoString("second")])>>,
        [sec |-> 5, nsec |-> 0], Stack)

TakeReceiver ==
    /\ pc = "start"
    /\ dec' = PopulatedReceiver
    /\ pc' = "receiver"
    /\ UNCHANGED <<heap, cur, call, ret, out, data, decErr, frame, cfg, th>>

\* err := e.UnmarshalJSON(d), with e a zero AppError (var e AppError) or the
\* one the client took, on the bytes MarshalJSON just returned or on a text
\* received from elsewhere
DoUnmarshalJSON ==
    \E d \in IF pc = "marshalled" THEN {out}
             ELSE IF pc \in {"start", "receiver"} THEN WireTexts ELSE {} :
        /\ data' = d
        /\ dec' = AppError_UnmarshalJSON(dec, d).e
        /\ decErr' = AppError_UnmarshalJSON(dec, d).err
        /\ pc' = "unmarshalled"
        /\ UNCHANGED <<heap, cur, call, ret, out, frame, cfg, th>>

\* generic handling code hands the error it was given to the package-level
\* functions, without looking at its concrete type
GenericIsRetryable ==
    /\ HasAppError
    /\ Returned([NoRet EXCEPT !.op = "IsRetryable(err)",
                              !.b = IsRetryable(heap, cur).b])

GenericIsTimeoutErr ==
    /\ HasAppError
    /\ Returned([NoRet EXCEPT !.op = "IsTimeoutErr(err)",
                              !.b = IsTimeoutErr(heap, cur).b])

GenericPublicError ==
    /\ HasAppError
    /\ Returned([NoRet EXCEPT !.op = "PublicError(err)",
                              !.s = PublicError(heap, cur).s])

\* var ae *AppError; As(err, &ae): b is what As returns and n the address
\* it stores in ae
GenericAs ==
    /\ HasAppError
    /\ Returned([NoRet EXCEPT !.op = "As(err, &ae)",
                              !.b = As(heap, cur, "AppError") # 0,
                              !.n = As(heap, cur, "AppError")])

Next ==
    \/ DoNew
    \/ DoNewSentinel
    \/ DoNewFromError
    \/ DoNewLimitError
    \/ DoNewRBACError
    \/ DoFieldErrorf
    \/ DoNewTimeoutError
    \/ UseSentinel
    \/ DoHTTPStatus
    \/ DoLogLevel
    \/ DoIsRetryable
    \/ DoIsTimeout
    \/ GenericIsRetryable
    \/ GenericIsTimeoutErr
    \/ GenericPublicError
    \/ GenericAs
    \/ DoMarshalJSON
    \/ TakeReceiver
    \/ DoUnmarshalJSON

Spec == Init /\ [][Next]_vars

-----------------------------------------------------------------------------
(* A second client, which builds chains of errors: starting from the        *)
(* sentinels and the foreign errors it allocates up to MaxChain errors with *)
(* New, NewTimeoutError, NewFromError, Wrap, Wrapf and MultiError, each on  *)
(* top of the error it has in hand, and then asks one question about the    *)
(* error the last call returned; it builds no further on an error that a    *)
(* call returned without allocating.  Here cur is a value of interface type *)
(* error: 0 is the nil interface and NilAppError the nil *AppError that     *)
(* NewFromError(nil, ...) returns, converted to error.  The client hands    *)
(* that one only to IsRetryable, IsTimeoutErr and PublicError.              *)

NoChainCall ==
    [op |-> "", err |-> 0, code |-> "", msg |-> "", format |-> "", arg |-> "",
     errs |-> <<>>, opts |-> <<>>]

NoChainRet == [op |-> "", target |-> 0, a |-> 0, b |-> FALSE, s |-> "", panic |-> FALSE]

ChainNow == [sec |-> 1, nsec |-> 0]

\* the option lists of the chain client, before WithCause
ChainOptionLists ==
    { <<>>, <<WithRetryable(TRUE)>>, <<WithTimeout(TRUE)>>,
      <<WithMetadata([k \in {"password"} |-> GoString("hunter2")])>> }

\* the addresses the constructors have allocated
Allocations(h) == (Len(StaticObjects) + 1)..(Len(StaticObjects) + Len(h))

\* the errors the client starts a chain from: sentinels and a foreign error
ChainBases == {AddrOf(ErrNotFound), AddrOf(ErrTimeout), Len(Sentinels) + 1}

\* the argument lists of MultiError
MultiErrorArgs ==
    LET held == {0, AddrOf(ErrNotFound)} \cup (IF cur > 0 THEN {cur} ELSE {})
    IN  UNION {[1..n -> held] : n \in 0..MaxErrs}

\* the targets the client compares the error in hand with
IsTargets == ChainBases \cup Allocations(heap)

InitChain ==
    /\ heap = <<>>
    /\ cur = 0
    /\ call = NoChainCall
    /\ pc = "chain"
    /\ ret = NoChainRet
    /\ out = NoBytes
    /\ data = NoBytes
    /\ dec = ZeroAppError
    /\ decErr = FALSE
    /\ frame = <<>>
    /\ cfg = <<>>
    /\ th = <<>>

\* a call returned r: a new object, on which the client builds further, or
\* an error that existed already (or nil), which the client keeps as it is
Linked(r, c) ==
    /\ heap' = heap \o r.new
    /\ cur' = IF r.new = <<>> THEN r.a ELSE Len(StaticObjects) + Len(heap) + 1
    /\ call' = c
    /\ pc' = IF r.new = <<>> THEN "kept" ELSE "chain"
    /\ UNCHANGED <<ret, out, data, dec, decErr, frame, cfg, th>>

\* the client can build on the error in hand, which may be nil
CanBuild == pc = "chain" /\ Len(heap) < MaxChain

\* the client has an error to ask about
InHand == pc \in {"chain", "kept"}

\* the client takes an error that exists already as the bottom of its chain
HoldError ==
    /\ pc = "chain" /\ call = NoChainCall /\ cur = 0
    /\ \E a \in ChainBases :
          /\ cur' = a
          /\ UNCHANGED <<heap, call, pc, ret, out, data, dec, decErr, frame, cfg, th>>

ChainNew ==
    /\ CanBuild
    /\ \E opts \in ChainOptionLists :
          Linked(Allocated(AppErrorObject(
                    New(CodeInternal, "db down", "try again later",
                        opts \o <<WithCause(cur)>>, ChainNow, Stack))),
                 [NoChainCall EXCEPT !.op = "New", !.err = cur,
                                     !.opts = opts \o <<WithCause(cur)>>])

ChainNewTimeoutError ==
    /\ CanBuild
    /\ \E deadline \in Deadlines :
          Linked(Allocated(NewTimeoutError(deadline, <<WithCause(cur)>>,
                                           ChainNow, Stack)),
                 [NoChainCall EXCEPT !.op = "NewTimeoutError", !.err = cur,
                                     !.opts = <<WithCause(cur)>>])

\* NewFromError returns a *AppError; the client keeps it as an error, which
\* makes the nil pointer a non-nil error
ChainNewFromError ==
    /\ CanBuild
    /\ \E userMsg \in {"", "try again later"} :
          LET r == NewFromError(heap, cur, CodeInternal, userMsg, ChainNow, Stack)
          IN  Linked(IF r = Existing(0) THEN Existing(NilAppError) ELSE r,
                     [NoChainCall EXCEPT !.op = "NewFromError", !.err = cur,
                                         !.code = CodeInternal, !.msg = userMsg])

DoWrap ==
    /\ CanBuild
    /\ \E msg \in {"handler failed"} :
          Linked(Wrap(cur, msg),
                 [NoChainCall EXCEPT !.op = "Wrap", !.err = cur, !.msg = msg])

DoWrapf ==
    /\ CanBuild
    /\ \E format \in {"resource %s"}, arg \in {"user-123"} :
          Linked(Wrapf(cur, format, arg),
                 [NoChainCall EXCEPT !.op = "Wrapf", !.err = cur,
                                     !.format = format, !.arg = arg])

DoMultiError ==
    /\ CanBuild
    /\ \E errs \in MultiErrorArgs :
          Linked(MultiError(errs),
                 [NoChainCall EXCEPT !.op = "MultiError", !.errs = errs])

\* the client asked a question about the error in hand and got r
Answered(r) ==
    /\ ret' = r
    /\ pc' = "returned"
    /\ UNCHANGED <<heap, cur, call, out, data, dec, decErr, frame, cfg, th>>

\* b, _ := json.Marshal(err) on an error in hand that has the method
\* MarshalJSON: the bytes returned, and the receiver's Metadata map as the
\* call to redactMetadata leaves it
ChainMarshalJSON ==
    /\ InHand /\ cur > 0
    /\ Object(heap, cur).type \in AppErrorTypes
    /\ LET e == Object(heap, cur).AppError
           i == cur - Len(StaticObjects)
       IN  /\ out' = AppError_MarshalJSON(e)
           /\ heap' = IF Cardinality(DOMAIN e.Metadata) > 0
                      THEN [heap EXCEPT ![i].AppError.Metadata =
                                            redactMetadata_Arg(e.Metadata)]
                      ELSE heap
    /\ ret' = [NoChainRet EXCEPT !.op = "MarshalJSON"]
    /\ pc' = "returned"
    /\ UNCHANGED <<cur, call, data, dec, decErr, frame, cfg, th>>

DoUnwrap ==
    /\ InHand /\ cur >= 0
    /\ Answered([NoChainRet EXCEPT !.op = "Unwrap", !.a = Unwrap(heap, cur)])

DoRootCause ==
    /\ InHand /\ cur >= 0
    /\ Answered([NoChainRet EXCEPT !.op = "RootCause", !.a = RootCause(heap, cur)])

DoIs ==
    /\ InHand /\ cur >= 0
    /\ \E target \in IsTargets :
          Answered([NoChainRet EXCEPT !.op = "Is", !.target = target,
                                      !.b = Is(heap, cur, target)])

DoIsRetryableErr ==
    /\ InHand
    /\ Answered([NoChainRet EXCEPT !.op = "IsRetryable",
                                   !.b = IsRetryable(heap, cur).b,
                                   !.panic = IsRetryable(heap, cur).panic])

DoIsTimeoutErr ==
    /\ InHand
    /\ Answered([NoChainRet EXCEPT !.op = "IsTimeoutErr",
                                   !.b = IsTimeoutErr(heap, cur).b,
                                   !.panic = IsTimeoutErr(heap, cur).panic])

DoPublicError ==
    /\ InHand
    /\ Answered([NoChainRet EXCEPT !.op = "PublicError",
                                   !.s = PublicError(heap, cur).s,
                                   !.panic = PublicError(heap, cur).panic])

NextChain ==
    \/ HoldError
    \/ ChainNew
    \/ ChainNewTimeoutError
    \/ ChainNewFromError
    \/ DoWrap
    \/ DoWrapf
    \/ DoMultiError
    \/ DoUnwrap
    \/ DoRootCause
    \/ DoIs
    \/ DoIsRetryableErr
    \/ DoIsTimeoutErr
    \/ DoPublicError
    \/ ChainMarshalJSON

SpecChain == InitChain /\ [][NextChain]_vars

-----------------------------------------------------------------------------
(* RootCause as the loop it is, on chains of causes that may be cyclic: the
   client builds a chain as above, may redirect the Cause of an AppError it
   allocated with the exported option WithCause(c)(e), and calls RootCause. *)

\* the steps of the loop are counted up to here
MaxSteps == MaxChain + 2

\* a loop body that returns err when err.Unwrap() is err itself
RootCauseIter_StopsAtSelf(h, err) ==
    IF ~HasUnwrap(Object(h, err)) THEN [done |-> TRUE, err |-> err]
    ELSE IF UnwrapMethod(Object(h, err)) \in {0, err}
         THEN [done |-> TRUE, err |-> err]
    ELSE [done |-> FALSE, err |-> UnwrapMethod(Object(h, err))]

\* one pass through the body of the for loop with err # nil: whether it
\* returns, and the value it returns or assigns to err
RootCauseIter(h, err) ==
    IF ~HasUnwrap(Object(h, err)) THEN [done |-> TRUE, err |-> err]
    ELSE IF UnwrapMethod(Object(h, err)) = 0 THEN [done |-> TRUE, err |-> err]
    ELSE [done |-> FALSE, err |-> UnwrapMethod(Object(h, err))]

\* WithCause(c)(e) on an AppError e the client allocated, after which it
\* builds no further
SetCause ==
    /\ pc = "chain"
    /\ \E a \in Allocations(heap), c \in Allocations(heap) :
          /\ Object(heap, a).type = "AppError"
          /\ heap' = [heap EXCEPT ![a - Len(StaticObjects)].AppError =
                                      ApplyOption(WithCause(c), @)]
    /\ pc' = "kept"
    /\ UNCHANGED <<cur, call, ret, out, data, dec, decErr, frame, cfg, th>>

\* RootCause(err) is called: nil is returned at once, otherwise the loop starts
RootCauseEnter ==
    /\ InHand /\ cur >= 0
    /\ call' = [NoChainCall EXCEPT !.op = "RootCause", !.err = cur]
    /\ IF cur = 0
       THEN /\ ret' = [NoChainRet EXCEPT !.op = "RootCause", !.a = 0]
            /\ pc' = "returned"
            /\ frame' = frame
       ELSE /\ frame' = [err |-> cur, steps |-> 0]
            /\ pc' = "RootCause"
            /\ ret' = ret
    /\ UNCHANGED <<heap, cur, out, data, dec, decErr, cfg, th>>

\* one pass through the loop body; steps counts the assignments err = next
RootCauseStep ==
    /\ pc = "RootCause"
    /\ LET r == RootCauseIter(heap, frame.err)
       IN  IF r.done
           THEN /\ ret' = [NoChainRet EXCEPT !.op = "RootCause", !.a = r.err]
                /\ pc' = "returned"
                /\ frame' = frame
           ELSE /\ frame' = [err |-> r.err,
                             steps |-> IF frame.steps < MaxSteps
                                       THEN frame.steps + 1 ELSE frame.steps]
                /\ UNCHANGED <<ret, pc>>
    /\ UNCHANGED <<heap, cur, call, out, data, dec, decErr, cfg, th>>

NextLoop ==
    \/ HoldError
    \/ ChainNew
    \/ DoWrap
    \/ SetCause
    \/ RootCauseEnter
    \/ RootCauseStep

\* a goroutine that is inside the loop goes on executing it
SpecLoop == InitChain /\ [][NextLoop]_vars /\ WF_vars(RootCauseStep)

-----------------------------------------------------------------------------
(* Package config: a Config holds nested maps behind a read/write mutex.
   The maps are objects with reference semantics: cfg.maps[i] is the map at
   address i, cfg.maps[1] is c.data, and a nested map is the value
   GoMapAt(i). *)

\* the value of type map[string]any that refers to the map at address i
GoMapAt(i) == [t |-> "map", s |-> "", n |-> i, m |-> EmptyMap]

\* c.data
DataRoot == 1

\* m[k] = v
Put(m, k, v) == [x \in DOMAIN m \cup {k} |-> IF x = k THEN v ELSE m[x]]

UpperChar(c) ==
    IF \E i \in 1..Len(LowerLetters) : SubSeq(LowerLetters, i, i) = c
    THEN LET i == CHOOSE i \in 1..Len(LowerLetters) : SubSeq(LowerLetters, i, i) = c
         IN  SubSeq(UpperLetters, i, i)
    ELSE c

RECURSIVE ToUpper(_)
ToUpper(s) ==
    IF Len(s) = 0 THEN ""
    ELSE UpperChar(SubSeq(s, 1, 1)) \o ToUpper(SubSeq(s, 2, Len(s)))

TrimSuffix(s, suffix) ==
    IF Len(s) >= Len(suffix) /\ SubSeq(s, Len(s) - Len(suffix) + 1, Len(s)) = suffix
    THEN SubSeq(s, 1, Len(s) - Len(suffix))
    ELSE s

\* strings.ReplaceAll(s, ".", "_")
RECURSIVE ReplaceDots(_)
ReplaceDots(s) ==
    IF Len(s) = 0 THEN ""
    ELSE (IF SubSeq(s, 1, 1) = "." THEN "_" ELSE SubSeq(s, 1, 1))
            \o ReplaceDots(SubSeq(s, 2, Len(s)))

RECURSIVE TrimSpace(_)
TrimSpace(s) ==
    IF Len(s) = 0 THEN s
    ELSE IF SubSeq(s, 1, 1) = " " THEN TrimSpace(SubSeq(s, 2, Len(s)))
    ELSE IF SubSeq(s, Len(s), Len(s)) = " " THEN TrimSpace(SubSeq(s, 1, Len(s) - 1))
    ELSE s

IsDigits(s) ==
    Len(s) > 0 /\ \A i \in 1..Len(s) : Contains(Digits, SubSeq(s, i, i))

RECURSIVE DigitsValue(_)
DigitsValue(s) ==
    IF Len(s) = 0 THEN 0
    ELSE DigitsValue(SubSeq(s, 1, Len(s) - 1)) * Len(Digits)
            + (CHOOSE d \in 0..(Len(Digits) - 1) :
                  SubSeq(Digits, d + 1, d + 1) = SubSeq(s, Len(s), Len(s)))

\* n, _ := strconv.Atoi(s), for texts within the range of int
Atoi(s) ==
    IF IsDigits(s) THEN DigitsValue(s)
    ELSE IF Len(s) > 1 /\ SubSeq(s, 1, 1) = "+" /\ IsDigits(SubSeq(s, 2, Len(s)))
         THEN DigitsValue(SubSeq(s, 2, Len(s)))
    ELSE IF Len(s) > 1 /\ SubSeq(s, 1, 1) = "-" /\ IsDigits(SubSeq(s, 2, Len(s)))
         THEN 0 - DigitsValue(SubSeq(s, 2, Len(s)))
    ELSE 0

\* converter.ToInt(v) for nil, an int, a string and a map; fmt.Sprint of a
\* map starts with "map[", which Atoi rejects
ToInt(v) ==
    CASE v.t = "nil" -> 0
      [] v.t = "int" -> v.n
      [] v.t = "string" -> Atoi(TrimSpace(v.s))
      [] OTHER -> 0

\* the parts of key between dots, without the empty ones
RECURSIVE splitKey(_)
splitKey(key) ==
    IF Len(key) = 0 THEN <<>>
    ELSE LET dots == {i \in 1..Len(key) : SubSeq(key, i, i) = "."}
             end == IF dots = {} THEN Len(key) + 1
                    ELSE CHOOSE i \in dots : \A j \in dots : i <= j
             rest == splitKey(SubSeq(key, end + 1, Len(key)))
         IN  IF end > 1 THEN <<SubSeq(key, 1, end - 1)>> \o rest ELSE rest

NotFound == [v |-> GoNil, ok |-> FALSE]

\* the loop of getNested over the parts, from the value current
RECURSIVE getNestedFrom(_, _, _)
getNestedFrom(maps, current, parts) ==
    IF parts = <<>> THEN [v |-> current, ok |-> TRUE]
    ELSE IF current.t # "map" THEN NotFound
    ELSE IF Head(parts) \notin DOMAIN maps[current.n] THEN NotFound
    ELSE getNestedFrom(maps, maps[current.n][Head(parts)], Tail(parts))

\* getNested(c.data, key); c.data is never nil
getNested(maps, key) ==
    IF key = "" THEN NotFound
    ELSE getNestedFrom(maps, GoMapAt(DataRoot), splitKey(key))

\* the loop of setNested and its last assignment, m being the map at address a
RECURSIVE setNestedFrom(_, _, _, _)
setNestedFrom(maps, a, parts, val) ==
    IF Len(parts) = 1 THEN [maps EXCEPT ![a] = Put(@, parts[1], val)]
    ELSE LET part == Head(parts)
             ok == part \in DOMAIN maps[a] /\ maps[a][part].t = "map"
             next == IF ok THEN maps[a][part].n ELSE Len(maps) + 1
             made == IF ok THEN maps
                     ELSE Append([maps EXCEPT ![a] = Put(@, part, GoMapAt(next))],
                                 EmptyMap)
         IN  setNestedFrom(made, next, Tail(parts), val)

\* setNested(c.data, key, val): the maps after it
setNested(maps, key, val) ==
    IF Len(splitKey(key)) = 0 THEN maps
    ELSE setNestedFrom(maps, DataRoot, splitKey(key), val)

\* the process environment
Environ == [k \in {"APP_A_B"} |-> GoString("from-env")]

\* WithEnvPrefix(prefix): the value it gives c.envPrefix
WithEnvPrefix(prefix) == TrimSuffix(ToUpper(prefix), "_")

Config_envKey(c, key) ==
    LET s == ToUpper(ReplaceDots(key))
    IN  IF c.envPrefix # "" THEN c.envPrefix \o "_" \o s ELSE s

\* what Get does between RLock and RUnlock
Config_GetLocked(c, key) ==
    IF c.envPrefix # "" /\ Config_envKey(c, key) \in DOMAIN Environ
    THEN [v |-> Environ[Config_envKey(c, key)], ok |-> TRUE]
    ELSE getNested(c.maps, key)

Config_Get(c, key) == Config_GetLocked(c, key)

Config_Has(c, key) == Config_Get(c, key).ok

\* GetOrDefault: the value returned, and whether it is the default
Config_GetOrDefault(c, key, defaultVal) ==
    IF ~Config_Get(c, key).ok THEN [v |-> defaultVal, def |-> TRUE]
    ELSE [v |-> Config_Get(c, key).v, def |-> FALSE]

Config_GetIntOrDefault(c, key, defaultVal) ==
    IF ~Config_Get(c, key).ok THEN [v |-> GoInt(defaultVal), def |-> TRUE]
    ELSE [v |-> GoInt(ToInt(Config_Get(c, key).v)), def |-> FALSE]

\* what Set does between Lock and Unlock: the Config after it
Config_SetLocked(c, key, val) == [c EXCEPT !.maps = setNested(c.maps, key, val)]

Config_Set(c, key, val) == Config_SetLocked(c, key, val)

\* deepCopy(m) of the map at address a, as a value of its own
RECURSIVE deepCopy(_, _)
deepCopy(maps, a) ==
    [k \in DOMAIN maps[a] |->
        IF maps[a][k].t = "map" THEN GoMap(deepCopy(maps, maps[a][k].n))
        ELSE maps[a][k]]

\* the mutex with no holder
FreeMutex == [w |-> 0, r |-> {}]

\* FromMap(m, WithEnvPrefix(prefix)), the deep copy of m being maps
FromMap(maps, prefix) ==
    [maps |-> maps, envPrefix |-> WithEnvPrefix(prefix), mu |-> FreeMutex]

-----------------------------------------------------------------------------
(* A client that calls Set and the getters of one Config, one call after
   the other. *)

\* the calls of Set of one run
MaxSets == 2

\* the maps the Config is made from: {} and {"a": {"b": 1}, "x": " 42 "}
InitialMaps ==
    { <<EmptyMap>>,
      <<[k \in {"a", "x"} |-> IF k = "a" THEN GoMapAt(DataRoot + 1)
                                         ELSE GoString(" 42 ")],
        [k \in {"b"} |-> GoInt(1)]>> }

EnvPrefixes == {"", "app_"}

ConfigKeys == {"a", "a.b", "x", "", ".", "a..b"}

SetValues == {GoString("v1"), GoInt(2)}

NoConfigRet == [op |-> "", key |-> "", v |-> GoNil, ok |-> FALSE, def |-> FALSE]

InitConfig ==
    /\ heap = <<>>
    /\ cur = 0
    /\ call = NoChainCall
    /\ pc = "config"
    /\ ret = NoConfigRet
    /\ out = NoBytes
    /\ data = NoBytes
    /\ dec = ZeroAppError
    /\ decErr = FALSE
    /\ frame = <<>>
    /\ \E maps \in InitialMaps, prefix \in EnvPrefixes :
          /\ cfg = FromMap(maps, prefix)
          /\ th = [init |-> maps, sets |-> <<>>]

ConfigAnswered(r) ==
    /\ pc = "config"
    /\ ret' = r
    /\ UNCHANGED <<heap, cur, call, pc, out, data, dec, decErr, frame, cfg, th>>

DoSet ==
    /\ pc = "config"
    /\ Len(th.sets) < MaxSets
    /\ \E key \in ConfigKeys, val \in SetValues :
          /\ cfg' = Config_Set(cfg, key, val)
          /\ th' = [th EXCEPT !.sets = Append(@, [key |-> key, val |-> val])]
          /\ ret' = NoConfigRet
    /\ UNCHANGED <<heap, cur, call, pc, out, data, dec, decErr, frame>>

DoGet ==
    \E key \in ConfigKeys :
        ConfigAnswered([NoConfigRet EXCEPT !.op = "Get", !.key = key,
                                           !.v = Config_Get(cfg, key).v,
                                           !.ok = Config_Get(cfg, key).ok])

DoHas ==
    \E key \in ConfigKeys :
        ConfigAnswered([NoConfigRet EXCEPT !.op = "Has", !.key = key,
                                           !.ok = Config_Has(cfg, key)])

DoGetOrDefault ==
    \E key \in ConfigKeys, d \in {GoString("fallback")} :
        ConfigAnswered([NoConfigRet EXCEPT
                            !.op = "GetOrDefault", !.key = key,
                            !.v = Config_GetOrDefault(cfg, key, d).v,
                            !.def = Config_GetOrDefault(cfg, key, d).def])

DoGetIntOrDefault ==
    \E key \in ConfigKeys, d \in {7} :
        ConfigAnswered([NoConfigRet EXCEPT
                            !.op = "GetIntOrDefault", !.key = key,
                            !.v = Config_GetIntOrDefault(cfg, key, d).v,
                            !.def = Config_GetIntOrDefault(cfg, key, d).def])

NextConfig ==
    \/ DoSet
    \/ DoGet
    \/ DoHas
    \/ DoGetOrDefault
    \/ DoGetIntOrDefault

SpecConfig == InitConfig /\ [][NextConfig]_vars

-----------------------------------------------------------------------------
(* Goroutines that share one Config and call Get, Has, UnmarshalKey and Set
   on it concurrently, one call each.  A call is three steps: taking the
   mutex, the work under it, and releasing it with the return. *)

MaxThreads == 2

Threads == 1..MaxThreads

\* the shared Config is made from {"a": {"b": 1}}
SharedMaps ==
    << [k \in {"a"} |-> GoMapAt(DataRoot + 1)], [k \in {"b"} |-> GoInt(1)] >>

ReadCalls ==
    {[op |-> "Get", key |-> k] : k \in {"a", "a.b"}}
        \cup {[op |-> "Has", key |-> k] : k \in {"a", "a.c"}}
        \cup {[op |-> "UnmarshalKey", key |-> "a"]}

SetCalls == {[key |-> k, val |-> GoInt(2)] : k \in {"a.b", "a.c", "x"}}

Idle == [pc |-> "idle", op |-> "", key |-> "", val |-> GoNil, res |-> NotFound]

InitRace ==
    /\ heap = <<>>
    /\ cur = 0
    /\ call = NoChainCall
    /\ pc = "shared"
    /\ ret = NoConfigRet
    /\ out = NoBytes
    /\ data = NoBytes
    /\ dec = ZeroAppError
    /\ decErr = FALSE
    /\ frame = <<>>
    /\ cfg = FromMap(SharedMaps, "")
    /\ th = [t \in Threads |-> Idle]

RaceFrame == UNCHANGED <<heap, cur, call, pc, ret, out, data, dec, decErr, frame>>

\* c.mu.RLock() at the start of Get (Has calls Get) and of UnmarshalKey
RLock(t) ==
    /\ th[t].pc = "idle"
    /\ cfg.mu.w = 0
    /\ \E c \in ReadCalls :
          th' = [th EXCEPT ![t] = [Idle EXCEPT !.pc = "rlocked", !.op = c.op,
                                               !.key = c.key]]
    /\ cfg' = [cfg EXCEPT !.mu.r = @ \cup {t}]
    /\ RaceFrame

\* the work of the reader under the read lock: Get looks the key up,
\* UnmarshalKey takes a deep copy of c.data
ReadLocked(t) ==
    /\ th[t].pc = "rlocked"
    /\ th' = [th EXCEPT ![t].pc = "read",
                        ![t].res =
                            IF th[t].op = "UnmarshalKey"
                            THEN [v |-> GoMap(deepCopy(cfg.maps, DataRoot)),
                                  ok |-> TRUE]
                            ELSE Config_GetLocked(cfg, th[t].key)]
    /\ UNCHANGED cfg
    /\ RaceFrame

\* c.mu.RUnlock() and the return: Get hands what it found to its caller, Has
\* only the flag, UnmarshalKey goes on with its copy
RUnlock(t) ==
    /\ th[t].pc = "read"
    /\ th' = [th EXCEPT ![t].pc = "returned",
                        ![t].res = IF th[t].op = "Has"
                                   THEN [v |-> GoNil, ok |-> th[t].res.ok]
                                   ELSE @]
    /\ cfg' = [cfg EXCEPT !.mu.r = @ \ {t}]
    /\ RaceFrame

\* c.mu.Lock() at the start of Set
Lock(t) ==
    /\ th[t].pc = "idle"
    /\ cfg.mu.w = 0 /\ cfg.mu.r = {}
    /\ \E c \in SetCalls :
          th' = [th EXCEPT ![t] = [Idle EXCEPT !.pc = "locked", !.op = "Set",
                                               !.key = c.key, !.val = c.val]]
    /\ cfg' = [cfg EXCEPT !.mu.w = t]
    /\ RaceFrame

\* setNested(c.data, key, val) under the write lock
WriteLocked(t) ==
    /\ th[t].pc = "locked"
    /\ cfg' = Config_SetLocked(cfg, th[t].key, th[t].val)
    /\ th' = [th EXCEPT ![t].pc = "written"]
    /\ RaceFrame

\* the deferred c.mu.Unlock()
Unlock(t) ==
    /\ th[t].pc = "written"
    /\ cfg' = [cfg EXCEPT !.mu.w = 0]
    /\ th' = [th EXCEPT ![t].pc = "returned"]
    /\ RaceFrame

NextRace ==
    \E t \in Threads :
        \/ RLock(t)
        \/ ReadLocked(t)
        \/ RUnlock(t)
        \/ Lock(t)
        \/ WriteLocked(t)
        \/ Unlock(t)

SpecRace == InitRace /\ [][NextRace]_vars

-----------------------------------------------------------------------------
(* Properties. *)

\* the AppError in hand (embedded in a variant or not)
Current == Object(heap, cur).AppError

HasOption(opts, name) == \E i \in 1..Len(opts) : opts[i].name = name

\* C1: every error NewTimeoutError returns is retryable and is a timeout,
\* whatever the deadline and whatever options it was given, WithRetryable(false)
\* and WithTimeout(false) included, in any position and any number of times;
\* the methods IsRetryable() and IsTimeout() both return true on it.
C1_TimeoutErrorForcesFlags ==
    (call.op = "NewTimeoutError" /\ pc # "start") =>
        /\ Object(heap, cur).type = "TimeoutError"
        /\ AppError_IsRetryable(Current)
        /\ AppError_IsTimeout(Current)
        /\ Current.Timeout
        /\ (ret.op = "IsRetryable" => ret.b)
        /\ (ret.op = "IsTimeout" => ret.b)

\* NewTimeoutError was given WithRetryable(false) as its last option and
\* IsRetryable() has returned
C1_Witness ==
    /\ call.op = "NewTimeoutError"
    /\ Len(call.opts) = MaxOpts
    /\ call.opts[MaxOpts] = WithRetryable(FALSE)
    /\ call.opts[1] \in {WithRetryable(FALSE), WithTimeout(FALSE)}
    /\ ret.op = "IsRetryable"
    /\ ret.b

\* C2: the JSON MarshalJSON produces for an error built by New does not depend
\* on the internal message: built again with the same code, user message,
\* options and time but any other internal message, the error serialises to
\* the same bytes; and the internal message is not the value of an output key.
\* (Of two different internal messages one is non-empty: the check is made at
\* the error built with that one.)
C2_JSONIndependentOfInternalMsg ==
    (call.op = "New" /\ pc = "marshalled" /\ call.internalMsg # "") =>
        /\ \A other \in InternalMsgs :
              AppError_MarshalJSON(New(call.code, other, call.userMsg, call.opts,
                                       call.now, Stack)) = out
        /\ call.internalMsg # call.userMsg =>
              \A k \in DOMAIN out.members :
                  out.members[k] # JString(call.internalMsg)

\* C3: the user message of every error a constructor returns is non-empty.
C3_UserMsgNeverEmpty ==
    (pc # "start" /\ cur # 0
        /\ call.op \in {"New", "NewSentinel", "NewFromError", "NewLimitError",
                        "NewRBACError", "FieldErrorf", "NewTimeoutError"}) =>
        Current.UserMsg # ""

\* C4: New with an empty user message returns an error whose UserMsg is the
\* internal message; with a non-empty user message, UserMsg is that message
\* and InternalMsg the internal message; for every code and option list.
C4_UserMsgDefaultsToInternalMsg ==
    (call.op = "New" /\ pc # "start") =>
        /\ Object(heap, cur).type = "AppError"
        /\ call.userMsg = "" => Current.UserMsg = call.internalMsg
        /\ call.userMsg # "" =>
              /\ Current.UserMsg = call.userMsg
              /\ Current.InternalMsg = call.internalMsg

\* New was called with an empty user message, a non-empty internal message
\* and a full option list
C4_Witness ==
    /\ call.op = "New"
    /\ pc = "built"
    /\ call.userMsg = ""
    /\ call.internalMsg # ""
    /\ Len(call.opts) = MaxOpts
    /\ Current.UserMsg = call.internalMsg

\* the metadata keys of the model that the claim calls sensitive: the
\* lower-cased key is password, ssn, api_key, email or credit_card, or contains
\* "token" or "secret"; user_id, user_email and attempt are not
C5_SensitiveKeys ==
    { "password", "SSN", "Auth_Token", "api_key", "email", "client_secret_v2",
      "credit_card" }

\* C5: the "metadata" object MarshalJSON writes has exactly the keys of the
\* error's Metadata (and is left out when there are none); the value of each
\* sensitive key is "[REDACTED]", the value of every other key is the JSON
\* form of the original value.
C5_MetadataRedacted ==
    pc = "marshalled" =>
        IF DOMAIN Current.Metadata = {}
        THEN "metadata" \notin DOMAIN out.members
        ELSE /\ "metadata" \in DOMAIN out.members
             /\ out.members["metadata"].t = "object"
             /\ DOMAIN out.members["metadata"].m = DOMAIN Current.Metadata
             /\ \A k \in DOMAIN Current.Metadata :
                   out.members["metadata"].m[k] =
                       IF k \in C5_SensitiveKeys
                       THEN JString("[REDACTED]")
                       ELSE jsonMarshalValue(Current.Metadata[k])

\* an error was serialised whose metadata has the mixed-case sensitive keys
\* Auth_Token and SSN beside the plain keys user_email and user_id
C5_Witness ==
    /\ pc = "marshalled"
    /\ {"Auth_Token", "SSN", "user_email", "user_id"} \subseteq DOMAIN Current.Metadata
    /\ out.members["metadata"].m["Auth_Token"] = JString("[REDACTED]")
    /\ out.members["metadata"].m["user_email"] = JString("a@b.c")

\* C6: codeToKind maps every code, declared or not, to a declared kind, and
\* every undeclared code to KindOther; so an error built by New without
\* WithKind has a declared kind.
C6_CodeToKindTotal ==
    (call.op = "New" /\ pc # "start" /\ ~HasOption(call.opts, "WithKind")) =>
        /\ Current.Kind \in Kind
        /\ Current.Kind = codeToKind(call.code)
        /\ call.code \notin Code => Current.Kind = KindOther
        /\ \A c \in AllCodes :
              /\ codeToKind(c) \in Kind
              /\ c \notin Code => codeToKind(c) = KindOther

\* New was called with an undeclared code and options, none of them WithKind
C6_Witness ==
    /\ call.op = "New"
    /\ pc = "built"
    /\ call.code = UndeclaredCode
    /\ Len(call.opts) = MaxOpts
    /\ ~HasOption(call.opts, "WithKind")
    /\ Current.Kind = KindOther

\* the status table of the claim
C7_Table(k) ==
    CASE k = "validation" -> 400
      [] k = "unauthorized" -> 401
      [] k = "auth" -> 403
      [] k = "forbidden" -> 403
      [] k = "not_found" -> 404
      [] k = "timeout" -> 408
      [] k = "conflict" -> 409
      [] k = "rate_limit" -> 429
      [] OTHER -> 500

\* C7: HTTPStatus() returns the table's status for the error's kind, declared
\* or not, always one of 400, 401, 403, 404, 408, 409, 429, 500; for an error
\* built by New without WithKind it is the table entry of codeToKind(code),
\* 404 for CodeNotFound.
C7_HTTPStatusTable ==
    ret.op = "HTTPStatus" =>
        /\ ret.n = C7_Table(Current.Kind)
        /\ ret.n \in {400, 401, 403, 404, 408, 409, 429, 500}
        /\ (call.op = "New" /\ ~HasOption(call.opts, "WithKind")) =>
              /\ ret.n = C7_Table(codeToKind(call.code))
              /\ call.code = CodeNotFound => ret.n = 404

\* HTTPStatus() has returned 401 for a kind set explicitly to unauthorized
C7_Witness ==
    /\ ret.op = "HTTPStatus"
    /\ call.op = "NewSentinel"
    /\ Current.Kind = KindUnauthorized
    /\ ret.n = 401

\* C8: LogLevel() returns warn exactly for the kinds validation, not_found,
\* forbidden, auth, rate_limit, timeout and network, and error for every other
\* kind, declared or not; never debug or info.
C8_LogLevelTable ==
    ret.op = "LogLevel" =>
        /\ ret.s = IF Current.Kind \in {"validation", "not_found", "forbidden", "auth",
                                        "rate_limit", "timeout", "network"}
                   THEN "warn" ELSE "error"
        /\ ret.s \notin {LogDebug, LogInfo}

\* LogLevel() has returned error for the kind conflict
C8_Witness ==
    /\ ret.op = "LogLevel"
    /\ Current.Kind = KindConflict
    /\ ret.s = LogError

\* C9: unmarshalling the bytes MarshalJSON returned for an error built by New
\* into a zero AppError gives no error and the same Code, Kind, UserMsg,
\* TraceID and RequestID, and the Timestamp cut to whole seconds.
C9_RoundTrip ==
    (call.op = "New" /\ pc = "unmarshalled") =>
        /\ data = out
        /\ ~decErr
        /\ dec.Code = Current.Code
        /\ dec.Kind = Current.Kind
        /\ dec.UserMsg = Current.UserMsg
        /\ dec.TraceID = Current.TraceID
        /\ dec.RequestID = Current.RequestID
        /\ dec.Timestamp = [sec |-> Current.Timestamp.sec, nsec |-> 0]

\* an error with a trace id, an undeclared kind and a Timestamp with
\* nanoseconds went through MarshalJSON and UnmarshalJSON
C9_Witness ==
    /\ call.op = "New"
    /\ pc = "unmarshalled"
    /\ Current.TraceID # ""
    /\ Current.Kind = UndeclaredKind
    /\ Current.Timestamp.nsec # 0
    /\ dec.Timestamp.sec = Current.Timestamp.sec

\* the timestamp strings of the received texts that are not RFC3339
C10_BadTimestamps == { JString("yesterday"), JString("") }

\* C10: UnmarshalJSON of an object whose "timestamp" is a string that is not
\* RFC3339 returns no error, has Timestamp zero and fills the other fields
\* from their members; a "code" or "kind" string is stored as it is, declared
\* or not.
C10_UnmarshalDegradesGracefully ==
    (pc = "unmarshalled" /\ data.form = "object") =>
        LET m == data.members
            str(k) == k \in DOMAIN m /\ m[k].t = "string"
        IN  /\ ~decErr
            /\ ("timestamp" \in DOMAIN m /\ m["timestamp"] \in C10_BadTimestamps)
                  => dec.Timestamp = ZeroTime
            /\ str("code") => dec.Code = m["code"].s
            /\ str("kind") => dec.Kind = m["kind"].s
            /\ str("message") => dec.UserMsg = m["message"].s
            /\ str("trace_id") => dec.TraceID = m["trace_id"].s
            /\ ("metadata" \in DOMAIN m /\ m["metadata"].t = "object")
                  => DOMAIN dec.Metadata = DOMAIN m["metadata"].m

\* an object with the timestamp "yesterday" and an undeclared code and kind
\* was unmarshalled
C10_Witness ==
    /\ pc = "unmarshalled"
    /\ cur = 0
    /\ data.form = "object"
    /\ {"timestamp", "code", "kind", "message"} \subseteq DOMAIN data.members
    /\ data.members["timestamp"] = JString("yesterday")
    /\ dec.Code = "FUTURE_CODE"
    /\ dec.Kind = "future_kind"
    /\ dec.UserMsg = "resource not found"
    /\ ~decErr


\* C11: the object MarshalJSON writes always has the members code, kind and
\* message, message being UserMsg; it has trace_id exactly when TraceID is not
\* empty, request_id exactly when RequestID is not empty, timestamp exactly
\* when Timestamp is not the zero time, metadata exactly when Metadata has an
\* entry, and no other member; a sentinel gives exactly code, kind, message
C11_MarshalJSONKeys ==
    pc = "marshalled" =>
        LET e == Current
            keys == DOMAIN out.members
        IN  /\ out.form = "object"
            /\ {"code", "kind", "message"} \subseteq keys
            /\ out.members["code"] = JString(e.Code)
            /\ out.members["kind"] = JString(e.Kind)
            /\ out.members["message"] = JString(e.UserMsg)
            /\ ("trace_id" \in keys) <=> (e.TraceID # "")
            /\ ("request_id" \in keys) <=> (e.RequestID # "")
            /\ ("timestamp" \in keys) <=> (e.Timestamp # ZeroTime)
            /\ ("metadata" \in keys) <=> (DOMAIN e.Metadata # {})
            /\ keys \subseteq {"code", "kind", "message", "trace_id", "request_id",
                               "timestamp", "metadata"}
            /\ call.op \in {"sentinel", "NewSentinel"} =>
                    keys = {"code", "kind", "message"}

\* a package sentinel was marshalled, to three members
C11_Witness ==
    /\ pc = "marshalled"
    /\ call.op = "sentinel"
    /\ cur \in SentinelAddrs
    /\ Cardinality(DOMAIN out.members) = 3

-----------------------------------------------------------------------------
(* Properties of the chain client. *)

\* the error the object at address a wraps or has as its Cause, 0 if none
Cause(h, a) ==
    LET o == Object(h, a)
    IN  IF o.type = "wrapError" THEN o.cause
        ELSE IF o.type \in AppErrorTypes THEN o.AppError.Cause
        ELSE 0

\* the links of the chain of causes that starts at a: a, its cause, and so on
RECURSIVE ChainOf(_, _)
ChainOf(h, a) == IF a <= 0 THEN {} ELSE {a} \cup ChainOf(h, Cause(h, a))

\* every error below a: the chains of causes and, under a joined error, the
\* errors it joins
RECURSIVE Reach(_, _)
Reach(h, a) ==
    IF a <= 0 THEN {}
    ELSE IF Object(h, a).type = "joinError"
         THEN {a} \cup UNION {Reach(h, Object(h, a).errs[i]) :
                                 i \in 1..Len(Object(h, a).errs)}
    ELSE {a} \cup Reach(h, Cause(h, a))

\* C12: Wrap(nil, msg) and Wrapf(nil, ...) return nil; for a non-nil err,
\* Wrap(err, msg) returns a new error w with Unwrap(w) = err and
\* w.Error() = msg + ": " + err.Error()
C12_WrapKeepsCauseAndText ==
    /\ (call.op \in {"Wrap", "Wrapf"} /\ call.err = 0) => cur = 0
    /\ (call.op = "Wrap" /\ call.err # 0) =>
            /\ cur = Len(StaticObjects) + Len(heap)
            /\ cur # call.err
            /\ Unwrap(heap, cur) = call.err
            /\ ErrorText(heap, cur) = call.msg \o ": " \o ErrorText(heap, call.err)

\* Wrap was called on an error that is itself a wrapped sentinel
C12_Witness ==
    /\ call.op = "Wrap"
    /\ call.err \in Allocations(heap)
    /\ Object(heap, call.err).type = "wrapError"
    /\ Object(heap, call.err).cause \in SentinelAddrs
    /\ cur \in Allocations(heap) \ {call.err}

\* C13: with a chain built by Wrap, Wrapf and New(..., WithCause(...)) steps,
\* Is(chain, e) is true for every link e of the chain, the chain itself
\* included, and Is(chain, s) is false for every sentinel s that is not a
\* link of the chain
C13_IsFindsEveryLink ==
    (pc = "returned" /\ ret.op = "Is" /\ cur > 0) =>
        /\ ret.target \in ChainOf(heap, cur) => ret.b
        /\ ret.target \in SentinelAddrs \ Reach(heap, cur) => ~ret.b

\* Is found the sentinel at the bottom of a chain of two wrappers
C13_Witness ==
    /\ pc = "returned" /\ ret.op = "Is" /\ ret.b
    /\ ret.target \in SentinelAddrs
    /\ Cardinality(ChainOf(heap, cur)) = 3
    /\ Cause(heap, Cause(heap, cur)) = ret.target

\* C14: RootCause(nil) is nil, and for a chain of causes e0 -> ... -> en
\* RootCause(e0) is en, the link that has no cause or no Unwrap method; so
\* RootCause(e) is e for an error without a cause
C14_RootCauseIsLastLink ==
    (pc = "returned" /\ ret.op = "RootCause") =>
        /\ cur = 0 => ret.a = 0
        /\ cur > 0 => /\ ret.a \in ChainOf(heap, cur)
                      /\ Cause(heap, ret.a) = 0

\* RootCause went down two links to the error at the bottom
C14_Witness ==
    /\ pc = "returned" /\ ret.op = "RootCause"
    /\ Cardinality(ChainOf(heap, cur)) = 3
    /\ ret.a = Cause(heap, Cause(heap, cur))
    /\ ret.a \in ChainBases

\* C15: MultiError returns nil when no argument is non-nil, and when exactly
\* one argument is non-nil it returns that very error and allocates nothing,
\* wherever the nil arguments are
C15_MultiErrorIgnoresNil ==
    [][(pc = "chain" /\ pc' # "returned" /\ call'.op = "MultiError") =>
            LET nonNil == {i \in 1..Len(call'.errs) : call'.errs[i] # 0}
            IN  /\ nonNil = {} => (cur' = 0 /\ heap' = heap)
                /\ Cardinality(nonNil) = 1 =>
                        /\ \A i \in nonNil : cur' = call'.errs[i]
                        /\ heap' = heap]_vars

\* MultiError(nil, e) returned e, an error the client had built
C15_Witness ==
    /\ call.op = "MultiError"
    /\ Len(call.errs) = 2 /\ call.errs[1] = 0
    /\ call.errs[2] \in Allocations(heap)
    /\ cur = call.errs[2]

\* C16: when MultiError got two or more non-nil arguments, Is(joined, x) is
\* true for every argument x and for every error in the chain of causes of
\* an argument, also when the joined error was wrapped with Wrap
C16_IsSeesThroughJoin ==
    (pc = "returned" /\ ret.op = "Is" /\ cur > 0) =>
        LET joined == IF Object(heap, cur).type = "wrapError"
                      THEN Object(heap, cur).cause ELSE cur
        IN  Object(heap, joined).type = "joinError" =>
                \A i \in 1..Len(Object(heap, joined).errs) :
                    ret.target \in ChainOf(heap, Object(heap, joined).errs[i])
                        => ret.b

\* Is found, under a wrapped joined error, the cause of one of the joined errors
C16_Witness ==
    /\ pc = "returned" /\ ret.op = "Is" /\ ret.b
    /\ call.op = "Wrap"
    /\ Object(heap, cur).type = "wrapError"
    /\ Object(heap, Object(heap, cur).cause).type = "joinError"
    /\ ret.target \in ChainBases

\* C17: PublicError(nil) is "", PublicError of an error whose type is none
\* of *AppError, *FieldError, *LimitError, *TimeoutError, *RBACError is
\* "an error occurred", and PublicError never panics
C17_PublicErrorDefaultDeny ==
    (pc = "returned" /\ ret.op = "PublicError") =>
        /\ ~ret.panic
        /\ cur = 0 => ret.s = ""
        /\ (cur > 0 /\ Object(heap, cur).type \notin AppErrorTypes) =>
                ret.s = "an error occurred"

\* C18: when the chain of the error holds an AppError or a variant with a
\* user message, PublicError returns such a user message and not the fallback
C18_PublicErrorChainAware ==
    (pc = "returned" /\ ret.op = "PublicError" /\ cur > 0) =>
        LET msgs == {Object(heap, a).AppError.UserMsg :
                        a \in {x \in ChainOf(heap, cur) :
                                  /\ Object(heap, x).type \in AppErrorTypes
                                  /\ Object(heap, x).AppError.UserMsg # ""}}
        IN  msgs # {} => ret.s \in msgs

\* C19: IsRetryable(nil) is false, and for a non-nil err IsRetryable(err) is
\* true exactly when some link of its chain is an AppError or a variant with
\* Retryable set
C19_IsRetryableAnyLink ==
    (pc = "returned" /\ ret.op = "IsRetryable" /\ cur >= 0) =>
        (ret.b <=> \E a \in Reach(heap, cur) :
                        /\ Object(heap, a).type \in AppErrorTypes
                        /\ Object(heap, a).AppError.Retryable)

\* C20: IsTimeoutErr(nil) is false, and for a non-nil err IsTimeoutErr(err)
\* is true exactly when some link of its chain is ErrTimeout or an AppError
\* or a variant with Timeout set or of kind timeout
C20_IsTimeoutErrAnyLink ==
    (pc = "returned" /\ ret.op = "IsTimeoutErr" /\ cur >= 0) =>
        (ret.b <=> \E a \in Reach(heap, cur) :
                        \/ a = AddrOf(ErrTimeout)
                        \/ /\ Object(heap, a).type \in AppErrorTypes
                           /\ \/ Object(heap, a).AppError.Timeout
                              \/ Object(heap, a).AppError.Kind = KindTimeout)

\* the variant structs, which embed AppError
VariantTypes == {"LimitError", "RBACError", "FieldError", "TimeoutError"}

\* C21: for every LimitError, RBACError, FieldError and TimeoutError v, built
\* with any option list, the package-level functions agree with the embedded
\* AppError: IsRetryable(v) = v.IsRetryable(), IsTimeoutErr(v) = v.IsTimeout(),
\* PublicError(v) = v.UserMsg, and As(v, &ae) binds the embedded AppError
C21_VariantsAgreeWithBase ==
    (pc = "returned" /\ Object(heap, cur).type \in VariantTypes) =>
        /\ ret.op = "IsRetryable(err)" => ret.b = AppError_IsRetryable(Current)
        /\ ret.op = "IsTimeoutErr(err)" => ret.b = AppError_IsTimeout(Current)
        /\ ret.op = "PublicError(err)" => ret.s = Current.UserMsg
        /\ ret.op = "As(err, &ae)" => (ret.b /\ ret.n = cur)

\* the position of the last option called name in opts, 0 when there is none
LastOption(opts, name) ==
    LET at == {i \in 1..Len(opts) : opts[i].name = name}
    IN  IF at = {} THEN 0 ELSE CHOOSE i \in at : \A j \in at : j <= i

\* the position of the last WithMetadata option of opts whose map has key k
LastMetadata(opts, k) ==
    LET at == {i \in 1..Len(opts) :
                  opts[i].name = "WithMetadata" /\ k \in DOMAIN opts[i].meta}
    IN  IF at = {} THEN 0 ELSE CHOOSE i \in at : \A j \in at : j <= i

\* C22: New applies its options in argument order after the defaults: Cause,
\* Kind, TraceID, RequestID, Retryable and Timeout have the value of the last
\* option that sets them, or the default when none does, and Metadata has
\* the keys of all WithMetadata maps, each with the value of the last map
\* that has the key
C22_LastOptionWins ==
    (call.op = "New" /\ cur \in Allocations(heap)) =>
        LET e == Current
            o == call.opts
            last(name) == o[LastOption(o, name)]
            set(name) == LastOption(o, name) # 0
        IN  /\ e.Cause = IF set("WithCause") THEN last("WithCause").cause ELSE 0
            /\ e.Kind = IF set("WithKind") THEN last("WithKind").kind
                        ELSE codeToKind(call.code)
            /\ e.TraceID = IF set("WithTraceID") THEN last("WithTraceID").id ELSE ""
            /\ e.RequestID =
                    IF set("WithRequestID") THEN last("WithRequestID").id ELSE ""
            /\ e.Retryable = (set("WithRetryable") /\ last("WithRetryable").flag)
            /\ e.Timeout = (set("WithTimeout") /\ last("WithTimeout").flag)
            /\ DOMAIN e.Metadata =
                    UNION {DOMAIN o[i].meta : i \in 1..Len(o)}
            /\ \A k \in DOMAIN e.Metadata :
                    e.Metadata[k] = o[LastMetadata(o, k)].meta[k]

\* New got two WithMetadata maps that both have user_id, and two other keys
C22_Witness ==
    /\ call.op = "New" /\ cur \in Allocations(heap)
    /\ Len(call.opts) = 2
    /\ \A i \in 1..2 : /\ call.opts[i].name = "WithMetadata"
                       /\ "user_id" \in DOMAIN call.opts[i].meta
    /\ call.opts[1].meta["user_id"] # call.opts[2].meta["user_id"]
    /\ Current.Metadata["user_id"] = call.opts[2].meta["user_id"]
    /\ {"password", "email"} \subseteq DOMAIN Current.Metadata

\* C23: NewFromError(nil, code, userMsg) returns nil; for an err that is a
\* *AppError it returns err itself and allocates nothing, whatever code and
\* userMsg are; for every other err it returns a new AppError with the code,
\* InternalMsg = err.Error(), UserMsg = userMsg, or err.Error() when userMsg
\* is empty, and Cause = err
C23_NewFromError ==
    [][(pc = "chain" /\ pc' # "returned" /\ call'.op = "NewFromError") =>
            LET err == call'.err
            IN  IF err = 0 THEN cur' = NilAppError /\ heap' = heap
                ELSE IF Object(heap, err).type = "AppError"
                THEN cur' = err /\ heap' = heap
                ELSE /\ Len(heap') = Len(heap) + 1
                     /\ SubSeq(heap', 1, Len(heap)) = heap
                     /\ cur' = Len(StaticObjects) + Len(heap')
                     /\ Object(heap', cur').type = "AppError"
                     /\ Object(heap', cur').AppError.Code = call'.code
                     /\ Object(heap', cur').AppError.InternalMsg = ErrorText(heap, err)
                     /\ Object(heap', cur').AppError.UserMsg =
                            IF call'.msg = "" THEN ErrorText(heap, err) ELSE call'.msg
                     /\ Object(heap', cur').AppError.Cause = err]_vars

\* NewFromError got a TimeoutError and no user message, and wrapped it
C23_Witness ==
    /\ call.op = "NewFromError" /\ call.msg = ""
    /\ call.err \in Allocations(heap)
    /\ Object(heap, call.err).type = "TimeoutError"
    /\ cur \in Allocations(heap) \ {call.err}
    /\ Object(heap, cur).AppError.Cause = call.err
    /\ Object(heap, cur).AppError.UserMsg = "operation timed out"

\* C26: each variant constructor yields its own fixed Code and Kind for every
\* option list, WithKind included: NewLimitError RATE_LIMITED/rate_limit,
\* NewRBACError PERMISSION_DENIED/forbidden, NewTimeoutError TIMEOUT/timeout,
\* FieldErrorf VALIDATION/validation; HTTPStatus() then answers 429, 403, 408
\* and 400.
VariantTable ==
    [NewLimitError |-> [code |-> CodeRateLimited, kind |-> KindRateLimit,
                        status |-> kindToHTTPStatus(KindRateLimit)],
     NewRBACError |-> [code |-> CodePermissionDenied, kind |-> KindForbidden,
                       status |-> kindToHTTPStatus(KindForbidden)],
     NewTimeoutError |-> [code |-> CodeTimeout, kind |-> KindTimeout,
                          status |-> kindToHTTPStatus(KindTimeout)],
     FieldErrorf |-> [code |-> CodeValidation, kind |-> KindValidation,
                      status |-> kindToHTTPStatus(KindValidation)]]

C26_VariantCodeKindFixed ==
    /\ kindToHTTPStatus(KindRateLimit) = 429
    /\ kindToHTTPStatus(KindForbidden) = 403
    /\ kindToHTTPStatus(KindTimeout) = 408
    /\ kindToHTTPStatus(KindValidation) = 400
    /\ (pc # "start" /\ call.op \in DOMAIN VariantTable) =>
          /\ Current.Code = VariantTable[call.op].code
          /\ Current.Kind = VariantTable[call.op].kind
          /\ (pc = "returned" /\ ret.op = "HTTPStatus") =>
                ret.n = VariantTable[call.op].status

\* NewLimitError was called with WithKind(KindNetwork) as its last option and
\* HTTPStatus() has answered 429
C26_Witness ==
    /\ pc = "returned"
    /\ call.op = "NewLimitError"
    /\ Len(call.opts) > 0
    /\ call.opts[Len(call.opts)] = WithKind(KindNetwork)
    /\ ret.op = "HTTPStatus"
    /\ ret.n = 429

\* C27: every predefined sentinel has the Kind that codeToKind gives its Code,
\* so the sentinel and an error built by New with the same Code agree in Kind,
\* HTTP status and log level.
C27_SentinelKindIsCodeToKind ==
    (pc # "start" /\ call.op = "sentinel") =>
        /\ Current.Kind = codeToKind(Current.Code)
        /\ AppError_HTTPStatus(Current)
              = kindToHTTPStatus(codeToKind(Current.Code))
        /\ AppError_LogLevel(Current)
              = AppError_LogLevel([Current EXCEPT
                                      !.Kind = codeToKind(Current.Code)])

\* C28: no query or chain operation changes an existing error: over every
\* step of Unwrap, Wrap, Wrapf, RootCause, Is, MultiError, PublicError,
\* IsRetryable, IsTimeoutErr, NewFromError and MarshalJSON, each object that
\* existed before the step, sentinels included, has all its fields unchanged
\* after it; MarshalJSON writes [REDACTED] into the bytes only.
C28_ExistingErrorsUnchanged ==
    [][\A a \in Addrs(heap) : Object(heap', a) = Object(heap, a)]_vars

\* MarshalJSON has run on an error whose Metadata holds a password: the bytes
\* differ from those of the same error without redaction, and the error still
\* holds the password
C28_Witness ==
    /\ pc = "returned"
    /\ ret.op = "MarshalJSON"
    /\ cur \in Allocations(heap)
    /\ "password" \in DOMAIN Object(heap, cur).AppError.Metadata
    /\ Object(heap, cur).AppError.Metadata["password"] = GoString("hunter2")
    /\ redactMetadata(Object(heap, cur).AppError.Metadata)["password"]
          = GoString("[REDACTED]")
    /\ out = AppError_MarshalJSON(Object(heap, cur).AppError)

\* what UnmarshalJSON may do to the receiver on the text d: each field is
\* assigned from its member when that is present with the expected type and
\* keeps its value otherwise, Cause, stackTrace, Retryable and Timeout keep
\* theirs; a text in rejected gives an error and an unchanged receiver, any
\* other text that is not an object gives no error and an unchanged receiver
C29_Effect(before, after, err, d, rejected) ==
    IF d.form = "object"
    THEN LET m == d.members
             str(k) == k \in DOMAIN m /\ m[k].t = "string"
             field(k, old) == IF str(k) THEN m[k].s ELSE old
         IN  /\ ~err
             /\ after.Code = field("code", before.Code)
             /\ after.Kind = field("kind", before.Kind)
             /\ after.UserMsg = field("message", before.UserMsg)
             /\ after.InternalMsg = field("message", before.InternalMsg)
             /\ after.TraceID = field("trace_id", before.TraceID)
             /\ after.RequestID = field("request_id", before.RequestID)
             /\ ~str("timestamp") => after.Timestamp = before.Timestamp
             /\ IF "metadata" \in DOMAIN m /\ m["metadata"].t = "object"
                THEN DOMAIN after.Metadata = DOMAIN m["metadata"].m
                ELSE after.Metadata = before.Metadata
             /\ after.Cause = before.Cause
             /\ after.stackTrace = before.stackTrace
             /\ after.Retryable = before.Retryable
             /\ after.Timeout = before.Timeout
    ELSE /\ after = before
         /\ err = (d.form \in rejected)

\* C29 as stated: UnmarshalJSON assigns only the fields whose member is
\* present with the expected type, never modifies Cause, the stack trace,
\* Retryable or Timeout, and on every input that is not a JSON object returns
\* an error and leaves the receiver unchanged.
C29_UnmarshalFrame ==
    [][pc' = "unmarshalled" =>
          C29_Effect(dec, dec', decErr', data', {"null", "array", "garbage"})]_vars

\* C29 amended: as above, except that the JSON text null is accepted: no
\* error is returned for it and the receiver is unchanged; only texts that
\* json.Unmarshal rejects for a map give an error.
C29_UnmarshalFrameNullAccepted ==
    [][pc' = "unmarshalled" =>
          C29_Effect(dec, dec', decErr', data', {"array", "garbage"})]_vars

\* a receiver with every field set was unmarshalled into from an object that
\* has a code and no trace_id: the code is replaced, and the trace id, the
\* cause and the retryable flag are the receiver's
C29_Witness ==
    /\ pc = "unmarshalled"
    /\ data.form = "object"
    /\ "code" \in DOMAIN data.members
    /\ "trace_id" \notin DOMAIN data.members
    /\ dec.Code = "FUTURE_CODE"
    /\ dec.TraceID = PopulatedReceiver.TraceID
    /\ dec.Cause = AddrOf(ErrTimeout)
    /\ dec.Retryable

\* the error reached from a after n calls of Unwrap(), nil once the chain ended
RECURSIVE CauseAfter(_, _, _)
CauseAfter(h, a, n) ==
    IF a = 0 \/ n = 0 THEN a ELSE CauseAfter(h, Unwrap(h, a), n - 1)

\* the chain of causes of a never ends: it runs into a cycle
Cyclic(h, a) == CauseAfter(h, a, Cardinality(Addrs(h))) # 0

\* the number of links of the chain of causes of a, when it ends
Links(h, a) == Cardinality({n \in 1..Cardinality(Addrs(h)) : CauseAfter(h, a, n) # 0})

\* C25: on a chain of causes that ends, RootCause returns, after at most one
\* assignment err = next per link; on a cyclic chain of causes RootCause stays
\* in its loop for ever.
C25_RootCauseTermination ==
    /\ [](call.op = "RootCause" /\ ~Cyclic(heap, call.err)
            => /\ pc = "RootCause" => frame.steps <= Links(heap, call.err)
               /\ pc = "returned" /\ call.err # 0
                    => /\ frame.steps = Links(heap, call.err)
                       /\ ret.a = CauseAfter(heap, call.err, frame.steps))
    /\ (pc = "RootCause" /\ ~Cyclic(heap, call.err)) ~> (pc = "returned")
    /\ []((pc = "RootCause" /\ Cyclic(heap, call.err)) => [](pc = "RootCause"))

\* RootCause runs on an AppError whose Cause is the AppError itself and has
\* gone through the loop MaxSteps times
C25_Witness ==
    /\ pc = "RootCause"
    /\ Object(heap, frame.err).type = "AppError"
    /\ Object(heap, frame.err).AppError.Cause = frame.err
    /\ call.err = frame.err
    /\ frame.steps = MaxSteps

\* no environment variable overrides key
NoOverride(key) ==
    cfg.envPrefix = "" \/ Config_envKey(cfg, key) \notin DOMAIN Environ

\* p is a proper dot-prefix of k: k is p, a dot, and more
DotPrefix(p, k) == Len(k) > Len(p) /\ SubSeq(k, 1, Len(p) + 1) = p \o "."

\* key names no entry of the initial map: it is empty, or one of its parts
\* between dots is, or the initial map has nothing at its path
AbsentInitially(key) ==
    \/ key = ""
    \/ SubSeq(key, 1, 1) = "."
    \/ SubSeq(key, Len(key), Len(key)) = "."
    \/ Contains(key, "..")
    \/ ~getNested(th.init, key).ok

\* the position of the most recent Set of key, 0 when it was never set
LastSet(key) ==
    IF \E i \in 1..Len(th.sets) : th.sets[i].key = key
    THEN CHOOSE i \in 1..Len(th.sets) :
            /\ th.sets[i].key = key
            /\ \A j \in (i + 1)..Len(th.sets) : th.sets[j].key # key
    ELSE 0

\* the answer the claim gives for key: the value of the most recent Set of
\* key when no later Set wrote to a dot-prefix or dot-extension of it; not
\* found when key was never set and is not in the initial map; open otherwise
Expected(key) ==
    LET i == LastSet(key)
    IN  IF i > 0 /\ \A j \in (i + 1)..Len(th.sets) :
                        /\ ~DotPrefix(th.sets[j].key, key)
                        /\ ~DotPrefix(key, th.sets[j].key)
        THEN [open |-> FALSE, v |-> th.sets[i].val, ok |-> TRUE]
        ELSE IF i = 0 /\ AbsentInitially(key)
        THEN [open |-> FALSE, v |-> GoNil, ok |-> FALSE]
        ELSE [open |-> TRUE, v |-> GoNil, ok |-> FALSE]

\* C24: with no environment override in effect, Get(k) returns (v, true) for
\* the v of the most recent Set(k, v) when no later Set wrote to a dot-prefix
\* or dot-extension of k, and Has(k) is then true; a key never set and absent
\* from the initial map gives (nil, false); the OrDefault getters return the
\* default exactly when Get reports not found.
C24_GetReturnsLastSet ==
    (pc = "config" /\ ret.op # "" /\ NoOverride(ret.key)) =>
        /\ (ret.op = "Get" /\ ~Expected(ret.key).open) =>
              /\ ret.ok = Expected(ret.key).ok
              /\ ret.v = Expected(ret.key).v
        /\ (ret.op = "Has" /\ ~Expected(ret.key).open) =>
              ret.ok = Expected(ret.key).ok
        /\ ret.op \in {"GetOrDefault", "GetIntOrDefault"} =>
              ret.def = ~Config_Get(cfg, ret.key).ok

\* the addresses of the maps that the Set of the writer w assigns to
WrittenBy(w) ==
    {a \in 1..Len(cfg.maps) :
        setNested(cfg.maps, th[w].key, th[w].val)[a] # cfg.maps[a]}

\* C30: under every interleaving of Get, Has, UnmarshalKey and Set, the
\* configuration data is read only with the lock held for reading and written
\* only with it held for writing, and no reader holds a map of the
\* configuration that a Set which is under way assigns to.
C30_ReadersIsolatedFromSet ==
    pc = "shared" =>
        \A t \in Threads :
            /\ th[t].pc \in {"rlocked", "read"} => (t \in cfg.mu.r /\ cfg.mu.w = 0)
            /\ th[t].pc \in {"locked", "written"} => (cfg.mu.w = t /\ cfg.mu.r = {})
            /\ th[t].pc = "locked" =>
                  \A r \in Threads :
                      (th[r].pc = "returned" /\ th[r].op \in {"Get", "UnmarshalKey"}
                          /\ th[r].res.v.t = "map")
                        => th[r].res.v.n \notin WrittenBy(t)
=============================================================================
